---- MODULE Spec2Model ----
(***************************************************************************)
(* The inbox synchronisation engine of gavel: the reconciliation of        *)
(* discovered pull requests into the persisted inbox (electron/inbox.ts,   *)
(* electron/polling.ts) and the poll scheduler around it.                  *)
(*                                                                         *)
(* Time is in milliseconds, as Date.now() gives it.  An ISO-8601 string    *)
(* made by toISOString() and read back by new Date(s).getTime() is the     *)
(* same number of milliseconds, so a timestamp is modelled by that number. *)
(* A PR id "{owner}/{repo}#{number}" is modelled by the triple it is made  *)
(* of; the fields owner, repo, number, author and url of an InboxPR are    *)
(* copied from the discovered record once and never written again, so the  *)
(* id stands for them.                                                     *)
(***************************************************************************)
EXTENDS Integers, Sequences, FiniteSets, TLC

VARIABLES
    now,            \* the wall clock, Date.now()
    disk,           \* the persisted InboxState (inbox-state.json)
    isPolling,      \* polling.ts: let isPolling
    rateLimitUntil, \* polling.ts: let rateLimitUntil
    cycles,         \* the runPoll invocations in flight, by slot
    runs,           \* how many poll cycles have started
    last,           \* the last handler that ran and what it emitted
    streak,         \* consecutive automatic cycles that hit a rate limit
    inboxStore,     \* the renderer's store (inboxStore.ts), its memory
    cmds,           \* how many store commands have run
    h               \* the inputs and results of one pure-function application

vars == <<now, disk, isPolling, rateLimitUntil, cycles, runs, last, streak, inboxStore, cmds, h>>

-----------------------------------------------------------------------------
(* Bounds of the model *)

NumPRs == 2         \* pull request numbers 1..NumPRs
MaxBatch == 2       \* longest batch an adapter returns
MaxClockSteps == 2  \* how often the clock advances in the scheduler
MaxCycles == 2      \* runPoll invocations that can be in flight together
MaxRuns == 2        \* poll cycles that start in one behaviour
SchedPRs == 1       \* pull request numbers the scheduler's adapters return
MaxFetched == 2     \* longest batch an adapter returns to the scheduler
MaxCommands == 2    \* store commands that run in one behaviour
MaxErrors == 7      \* source errors handled in one behaviour
MaxRaceCommands == 1  \* store commands that run beside the poll cycles
MaxTimerCalls == 5  \* calls of startPolling and stopPolling in one behaviour
MaxStatusPRs == 7   \* PRs in the state the status pass is given

(* Program constants *)

MAX_BACKOFF_MS == 30 * 60 * 1000
PR_STATUS_CONCURRENCY == 5
DONE_CLEANUP_HOURS == 24
IGNORE_DURATION_DAYS == 7
DEFAULT_POLL_INTERVAL == 300000

MINUTE_MS == 60 * 1000
HOUR_MS == 60 * 60 * 1000
DAY_MS == 24 * 60 * 60 * 1000

\* The clock reading of the initial state: late enough for a timestamp to be
\* more than IGNORE_DURATION_DAYS in the past.
T0 == 10 * DAY_MS

\* An optional timestamp that is not set (reviewedAt, doneAt, lastPollAt).
Undefined == 0 - 1

-----------------------------------------------------------------------------
(* Data *)

Columns == {"inbox", "needs-attention", "reviewed", "done"}

PRNumbers == 1..NumPRs

generatePRId(owner, repo, number) == <<owner, repo, number>>

PRIds == {generatePRId("o", "r", n) : n \in PRNumbers}

\* Head commits an upstream service reports, and the title the PR has at each.
Shas == {"a", "b"}
TitleAt(sha) == IF sha = "a" THEN "t1" ELSE "t2"

GitHubSource == [id |-> "s1", type |-> "github-search", enabled |-> TRUE]
SlackSource == [id |-> "s2", type |-> "slack", enabled |-> TRUE]

\* A record an adapter returns (GitHubSearchPR).
Discovered ==
    {[owner |-> "o", repo |-> "r", number |-> n, title |-> TitleAt(sha), headSha |-> sha] :
        n \in PRNumbers, sha \in Shas}

RECURSIVE SeqsUpTo(_, _)
SeqsUpTo(S, n) ==
    IF n = 0 THEN {<<>>}
    ELSE LET shorter == SeqsUpTo(S, n - 1)
         IN  shorter \cup {Append(s, x) : s \in {q \in shorter : Len(q) = n - 1}, x \in S}

Batches == SeqsUpTo(Discovered, MaxBatch)

\* The batches the adapters return in the scheduler
Fetched == SeqsUpTo({d \in Discovered : d.number <= SchedPRs}, MaxFetched)

Ids(prs) == {prs[i].id : i \in 1..Len(prs)}

RECURSIVE SelectSeq2(_, _)
\* Array.prototype.filter with a predicate given as the set of kept elements' indices
SelectSeq2(s, keep) ==
    IF s = <<>> THEN <<>>
    ELSE LET n == Len(s)
             front == SelectSeq2(SubSeq(s, 1, n - 1), keep)
         IN  IF n \in keep THEN Append(front, s[n]) ELSE front

\* An empty ignore ledger ({} in the code).
NoIgnores == [id \in {} |-> Undefined]

getDefaultState ==
    [prs |-> <<>>, sources |-> <<>>, lastPollAt |-> Undefined,
     pollIntervalMs |-> DEFAULT_POLL_INTERVAL, ignoredPRIds |-> NoIgnores]

-----------------------------------------------------------------------------
(* electron/inbox.ts (its text is lines 66-298 of src/electron/preload.ts) *)

\* isRecentlyIgnored with the comparison turned around
isRecentlyIgnored_reversed(prId, ignoredPRIds, t) ==
    IF prId \notin DOMAIN ignoredPRIds THEN FALSE
    ELSE ignoredPRIds[prId] < t - IGNORE_DURATION_DAYS * 24 * 60 * 60 * 1000

isRecentlyIgnored(prId, ignoredPRIds, t) ==
    IF prId \notin DOMAIN ignoredPRIds THEN FALSE
    ELSE LET ignoredTime == ignoredPRIds[prId]
             cutoff == t - IGNORE_DURATION_DAYS * 24 * 60 * 60 * 1000
         IN  ignoredTime > cutoff

\* movePRToColumn leaving doneAt as it was
movePRToColumn_noDoneAt(state, prId, column, t) ==
    [state EXCEPT !.prs =
        [i \in 1..Len(state.prs) |->
            LET pr == state.prs[i]
            IN  IF pr.id # prId THEN pr
                ELSE IF column = "reviewed"
                     THEN [pr EXCEPT !.column = column, !.reviewedAt = t]
                ELSE [pr EXCEPT !.column = column]]]

\* lines 264-285
movePRToColumn(state, prId, column, t) ==
    [state EXCEPT !.prs =
        [i \in 1..Len(state.prs) |->
            LET pr == state.prs[i]
            IN  IF pr.id # prId THEN pr
                ELSE IF column = "reviewed"
                     THEN [pr EXCEPT !.column = column, !.reviewedAt = t]
                ELSE IF column = "done"
                     THEN [pr EXCEPT !.column = column, !.doneAt = t]
                ELSE [pr EXCEPT !.column = column]]]

\* cleanupDonePRs keeping a PR that is done since exactly DONE_CLEANUP_HOURS
cleanupDonePRs_inclusive(prs, t) ==
    LET cutoff == t - DONE_CLEANUP_HOURS * 60 * 60 * 1000
    IN  SelectSeq2(prs, {i \in 1..Len(prs) :
            IF prs[i].column # "done" \/ prs[i].doneAt = Undefined THEN TRUE
            ELSE prs[i].doneAt >= cutoff})

cleanupDonePRs(prs, t) ==
    LET cutoff == t - DONE_CLEANUP_HOURS * 60 * 60 * 1000
    IN  SelectSeq2(prs, {i \in 1..Len(prs) :
            IF prs[i].column # "done" \/ prs[i].doneAt = Undefined THEN TRUE
            ELSE prs[i].doneAt > cutoff})

\* cleanupExpiredIgnores that removes nothing
cleanupExpiredIgnores_keepAll(ignoredPRIds, t) == ignoredPRIds

cleanupExpiredIgnores(ignoredPRIds, t) ==
    LET cutoff == t - IGNORE_DURATION_DAYS * 24 * 60 * 60 * 1000
        live == {id \in DOMAIN ignoredPRIds : ignoredPRIds[id] > cutoff}
    IN  [id \in live |-> ignoredPRIds[id]]

\* loadInboxState when the file is read and parsed
loadInboxState(file, t) ==
    [file EXCEPT !.prs = cleanupDonePRs(file.prs, t),
                 !.ignoredPRIds = cleanupExpiredIgnores(file.ignoredPRIds, t)]

\* removeSource without the cascade to the PRs of the source
removeSource_keepPRs(state, sourceId) ==
    [state EXCEPT !.sources =
        SelectSeq2(state.sources, {i \in 1..Len(state.sources) : state.sources[i].id # sourceId})]

removeSource(state, sourceId) ==
    [state EXCEPT
        !.sources = SelectSeq2(state.sources,
                        {i \in 1..Len(state.sources) : state.sources[i].id # sourceId}),
        !.prs = SelectSeq2(state.prs,
                        {i \in 1..Len(state.prs) : state.prs[i].sourceId # sourceId})]

-----------------------------------------------------------------------------
(* renderer/store/inboxStore.ts: the store's memory and its commands.  A   *)
(* command computes the state to persist (newState) and the fields to set  *)
(* in memory once it is persisted (patch).                                 *)

NoError == ""

\* The store's memory after initialize() loaded the state.  polls counts the
\* triggerPoll calls that refresh() sent to the main process.
StoreOf(state) ==
    [prs |-> state.prs, sources |-> state.sources, lastPollAt |-> state.lastPollAt,
     pollIntervalMs |-> state.pollIntervalMs, ignoredPRIds |-> state.ignoredPRIds,
     error |-> NoError, polls |-> 0]

\* lines 35-44; overrides is a record of some of the fields
buildInboxState(store, overrides) ==
    overrides @@ [prs |-> store.prs, sources |-> store.sources,
                  lastPollAt |-> store.lastPollAt,
                  pollIntervalMs |-> store.pollIntervalMs,
                  ignoredPRIds |-> store.ignoredPRIds]

\* lines 134-146
StoreRemoveSource(store, sourceId) ==
    LET newSources == SelectSeq2(store.sources,
                          {i \in 1..Len(store.sources) : store.sources[i].id # sourceId})
        newPRs == SelectSeq2(store.prs,
                          {i \in 1..Len(store.prs) : store.prs[i].sourceId # sourceId})
    IN  [newState |-> buildInboxState(store, [prs |-> newPRs, sources |-> newSources]),
         patch |-> [sources |-> newSources, prs |-> newPRs],
         message |-> "Failed to remove source"]

\* lines 118-132, up to the save
StoreAddSource(store, source) ==
    LET newSources == Append(store.sources, source)
    IN  [newState |-> buildInboxState(store, [sources |-> newSources]),
         patch |-> [sources |-> newSources],
         message |-> "Failed to add source"]

\* lines 148-161; updates is a record of some of the fields of a source
StoreUpdateSource(store, sourceId, updates) ==
    LET newSources == [i \in 1..Len(store.sources) |->
                          IF store.sources[i].id = sourceId
                          THEN updates @@ store.sources[i]
                          ELSE store.sources[i]]
    IN  [newState |-> buildInboxState(store, [sources |-> newSources]),
         patch |-> [sources |-> newSources],
         message |-> "Failed to update source"]

\* lines 169-179, after the test for a PR with the same id
StoreAddPR(store, pr) ==
    LET newPRs == Append(store.prs, pr)
    IN  [newState |-> buildInboxState(store, [prs |-> newPRs]),
         patch |-> [prs |-> newPRs],
         message |-> "Failed to add PR"]

\* lines 181-207
StoreMovePR(store, prId, column, t) ==
    LET newPRs == [i \in 1..Len(store.prs) |->
                      LET pr == store.prs[i]
                      IN  IF pr.id # prId THEN pr
                          ELSE IF column = "reviewed"
                               THEN [pr EXCEPT !.column = column, !.reviewedAt = t]
                          ELSE IF column = "done"
                               THEN [pr EXCEPT !.column = column, !.doneAt = t]
                          ELSE [pr EXCEPT !.column = column]]
    IN  [newState |-> buildInboxState(store, [prs |-> newPRs]),
         patch |-> [prs |-> newPRs],
         message |-> "Failed to move PR"]

\* The ledger with the entry of prId set to t
WithIgnored(ignoredPRIds, prId, t) ==
    [id \in DOMAIN ignoredPRIds \cup {prId} |-> IF id = prId THEN t ELSE ignoredPRIds[id]]

\* ignorePR persisting the list without the PR and the ledger as it was
StoreIgnorePR_listOnly(store, prId, t) ==
    LET newPRs == SelectSeq2(store.prs, {i \in 1..Len(store.prs) : store.prs[i].id # prId})
    IN  [newState |-> buildInboxState(store, [prs |-> newPRs]),
         patch |-> [prs |-> newPRs, ignoredPRIds |-> WithIgnored(store.ignoredPRIds, prId, t)],
         message |-> "Failed to ignore PR"]

\* lines 209-222
StoreIgnorePR(store, prId, t) ==
    LET newPRs == SelectSeq2(store.prs, {i \in 1..Len(store.prs) : store.prs[i].id # prId})
        newIgnoredPRIds == WithIgnored(store.ignoredPRIds, prId, t)
    IN  [newState |-> buildInboxState(store, [prs |-> newPRs,
                                              ignoredPRIds |-> newIgnoredPRIds]),
         patch |-> [prs |-> newPRs, ignoredPRIds |-> newIgnoredPRIds],
         message |-> "Failed to ignore PR"]

\* inbox.ts, ignorePR
ignorePR(state, prId, t) ==
    [state EXCEPT
        !.prs = SelectSeq2(state.prs, {i \in 1..Len(state.prs) : state.prs[i].id # prId}),
        !.ignoredPRIds = WithIgnored(state.ignoredPRIds, prId, t)]

\* A command whose save failed setting the fields all the same
AfterFailedSave_applied(store, cmd) == [(cmd.patch @@ store) EXCEPT !.error = cmd.message]

\* The catch block of a command: set({ error: message })
AfterFailedSave(store, cmd) == [store EXCEPT !.error = cmd.message]

-----------------------------------------------------------------------------
(* electron/polling.ts: pollSource, the fold of one discovered batch *)

NewInboxPR(pr, source, t) ==
    [id |-> generatePRId(pr.owner, pr.repo, pr.number), title |-> pr.title,
     headSha |-> pr.headSha, column |-> "inbox", source |-> source.type,
     sourceId |-> source.id, addedAt |-> t, lastCheckedAt |-> t,
     reviewedAt |-> Undefined, doneAt |-> Undefined]

\* UpsertDiscovered without the lookup of an existing entry
UpsertDiscovered_noLookup(state, pr, source, t) ==
    IF ~isRecentlyIgnored(generatePRId(pr.owner, pr.repo, pr.number), state.ignoredPRIds, t)
    THEN [state EXCEPT !.prs = Append(state.prs, NewInboxPR(pr, source, t))]
    ELSE state

\* UpsertDiscovered replacing an existing entry by the discovered record
UpsertDiscovered_overwrite(state, pr, source, t) ==
    LET prId == generatePRId(pr.owner, pr.repo, pr.number)
    IN  IF \E i \in 1..Len(state.prs) : state.prs[i].id = prId
        THEN [state EXCEPT !.prs =
                [i \in 1..Len(state.prs) |->
                    IF state.prs[i].id = prId THEN NewInboxPR(pr, source, t)
                    ELSE state.prs[i]]]
        ELSE IF ~isRecentlyIgnored(prId, state.ignoredPRIds, t)
             THEN [state EXCEPT !.prs = Append(state.prs, NewInboxPR(pr, source, t))]
             ELSE state

\* lines 172-218, the body of the loop for one discovered record
UpsertDiscovered(state, pr, source, t) ==
    LET prId == generatePRId(pr.owner, pr.repo, pr.number)
        existing == \E i \in 1..Len(state.prs) : state.prs[i].id = prId
        tempPR == NewInboxPR(pr, source, t)
    IN  IF existing
        THEN [state EXCEPT !.prs =
                [i \in 1..Len(state.prs) |->
                    IF state.prs[i].id = prId
                    THEN [state.prs[i] EXCEPT !.title = pr.title,
                                               !.headSha = pr.headSha,
                                               !.lastCheckedAt = t]
                    ELSE state.prs[i]]]
        ELSE IF ~isRecentlyIgnored(prId, state.ignoredPRIds, t)
             THEN [state EXCEPT !.prs = Append(state.prs, tempPR)]
             ELSE state

RECURSIVE pollSource(_, _, _, _)
\* pollSource after its adapter returned the batch prs
pollSource(state, source, prs, t) ==
    IF prs = <<>> THEN state
    ELSE pollSource(UpsertDiscovered(state, Head(prs), source, t), source, Tail(prs), t)

-----------------------------------------------------------------------------
(* electron/polling.ts: checkPRStatusChanges *)

\* What getPRStatus gives for one PR: a rejection, or {headSha, state}.
StatusResults ==
    {[failed |-> TRUE, state |-> "open", headSha |-> "a"],
     [failed |-> FALSE, state |-> "merged", headSha |-> "b"],
     [failed |-> FALSE, state |-> "closed", headSha |-> "a"]}
    \cup [failed : {FALSE}, state : {"open"}, headSha : Shas]

\* activePRs without the filter on the column
activePRs_all(state) == state.prs

\* activePRs leaving out the inbox column as well
activePRs_pastInbox(state) ==
    SelectSeq2(state.prs, {i \in 1..Len(state.prs) : state.prs[i].column \notin {"done", "inbox"}})

\* lines 228-230
activePRs(state) ==
    SelectSeq2(state.prs, {i \in 1..Len(state.prs) : state.prs[i].column # "done"})

\* RefreshSha leaving lastCheckedAt as it was
RefreshSha_keepChecked(state, pr, result, t) ==
    IF result.headSha # pr.headSha
    THEN [state EXCEPT !.prs =
            [i \in 1..Len(state.prs) |->
                IF state.prs[i].id = pr.id
                THEN [state.prs[i] EXCEPT !.headSha = result.headSha]
                ELSE state.prs[i]]]
    ELSE state

\* lines 279-293: "always update to the latest SHA"
RefreshSha(state, pr, result, t) ==
    IF result.headSha # pr.headSha
    THEN [state EXCEPT !.prs =
            [i \in 1..Len(state.prs) |->
                IF state.prs[i].id = pr.id
                THEN [state.prs[i] EXCEPT !.headSha = result.headSha, !.lastCheckedAt = t]
                ELSE state.prs[i]]]
    ELSE state

\* ApplyStatusResult flagging a new commit whatever the column
ApplyStatusResult_anyColumn(state, pr, result, t) ==
    IF result.failed THEN state
    ELSE IF result.state = "merged" \/ result.state = "closed"
    THEN movePRToColumn(state, pr.id, "done", t)
    ELSE RefreshSha(IF pr.headSha # "" /\ result.headSha # pr.headSha
                    THEN movePRToColumn(state, pr.id, "needs-attention", t)
                    ELSE state, pr, result, t)

\* ApplyStatusResult looking at the head commit before the state
ApplyStatusResult_shaFirst(state, pr, result, t) ==
    IF result.failed THEN state
    ELSE IF pr.headSha # "" /\ result.headSha # pr.headSha /\ pr.column = "reviewed"
    THEN RefreshSha(movePRToColumn(state, pr.id, "needs-attention", t), pr, result, t)
    ELSE IF result.state = "merged" \/ result.state = "closed"
    THEN movePRToColumn(state, pr.id, "done", t)
    ELSE RefreshSha(state, pr, result, t)

\* lines 257-294, the body of the loop for one result; pr is the entry as it
\* was when the pass started
ApplyStatusResult(state, pr, result, t) ==
    IF result.failed THEN state
    ELSE IF result.state = "merged" \/ result.state = "closed"
    THEN movePRToColumn(state, pr.id, "done", t)
    ELSE LET moved ==
                 IF pr.headSha # "" /\ result.headSha # pr.headSha /\ pr.column = "reviewed"
                 THEN movePRToColumn(state, pr.id, "needs-attention", t)
                 ELSE state
         IN  RefreshSha(moved, pr, result, t)

RECURSIVE ApplyStatusResults_failFast(_, _, _, _)
\* ApplyStatusResults when the first lookup that fails ends the pass
\* (Promise.all in the place of Promise.allSettled)
ApplyStatusResults_failFast(state, active, statusOf, t) ==
    IF active = <<>> \/ statusOf[Head(active).id].failed THEN state
    ELSE ApplyStatusResults_failFast(
             ApplyStatusResult(state, Head(active), statusOf[Head(active).id], t),
             Tail(active), statusOf, t)

RECURSIVE ApplyStatusResults(_, _, _, _)
\* lines 235-261 and 257-294: every lookup settles, then the results are applied
\* in the order of the list
ApplyStatusResults(state, active, statusOf, t) ==
    IF active = <<>> THEN state
    ELSE ApplyStatusResults(
             ApplyStatusResult(state, Head(active), statusOf[Head(active).id], t),
             Tail(active), statusOf, t)

\* checkPRStatusChanges when the lookup of the PR with id i settles as statusOf[i]
checkPRStatusChanges(state, statusOf, t) ==
    ApplyStatusResults(state, activePRs(state), statusOf, t)

-----------------------------------------------------------------------------
(* Inbox states the pure functions are applied to *)

\* A tracked PR as an earlier cycle and the user's moves left it.
TrackedPR(n, column, sha) ==
    [id |-> generatePRId("o", "r", n), title |-> "t1", headSha |-> sha,
     column |-> column,
     source |-> IF n = 1 THEN "github-search" ELSE "slack",
     sourceId |-> IF n = 1 THEN "s1" ELSE "s2",
     addedAt |-> T0 - DAY_MS, lastCheckedAt |-> T0 - HOUR_MS,
     reviewedAt |-> IF column \in {"reviewed", "needs-attention"}
                    THEN T0 - 2 * HOUR_MS ELSE Undefined,
     doneAt |-> IF column = "done" THEN T0 - HOUR_MS ELSE Undefined]

TrackedPRs(shas) == {TrackedPR(n, c, sha) : n \in PRNumbers, c \in Columns, sha \in shas}

DistinctIds(prs) == \A i, j \in 1..Len(prs) : prs[i].id = prs[j].id => i = j

RECURSIVE InboxLists(_, _)
\* The lists of at most n tracked PRs with pairwise different ids
InboxLists(shas, n) ==
    IF n = 0 THEN {<<>>}
    ELSE LET shorter == InboxLists(shas, n - 1)
         IN  shorter \cup
             {l \in {Append(q, p) : q \in {q \in shorter : Len(q) = n - 1},
                                    p \in TrackedPRs(shas)} : DistinctIds(l)}

\* Ignore timestamps around the expiry at T0: a day old, one millisecond short
\* of IGNORE_DURATION_DAYS old, and exactly that old.
IgnoreTimes == {T0 - DAY_MS, T0 - 7 * DAY_MS + 1, T0 - 7 * DAY_MS}

\* The ledgers over the ids that are not listed in prs
Ledgers(prs) ==
    UNION {[ids -> IgnoreTimes] : ids \in SUBSET (PRIds \ Ids(prs))}

InboxState(prs, ignored) ==
    [prs |-> prs, sources |-> <<GitHubSource, SlackSource>>,
     lastPollAt |-> T0 - HOUR_MS, pollIntervalMs |-> DEFAULT_POLL_INTERVAL,
     ignoredPRIds |-> ignored]

\* Inbox states with every ledger over the PRs they do not list
InboxStates(shas) ==
    UNION {{InboxState(prs, ign) : ign \in Ledgers(prs)} : prs \in InboxLists(shas, NumPRs)}

\* pollSource applied to S at t1 (out1), and to the result again at t2 (out2)
UpsertInput(S, src, d, t2) ==
    [kind |-> "upsert", phase |-> "in", S |-> S, src |-> src, D |-> d,
     t1 |-> T0, t2 |-> t2, out1 |-> S, out2 |-> S]

\* checkPRStatusChanges applied to S at t1 with the lookups settling as statusOf
StatusInput(S, statusOf) ==
    [kind |-> "status", phase |-> "in", S |-> S, statusOf |-> statusOf,
     t1 |-> T0, out1 |-> S]

\* removeSource applied to S (out1), and the state the store's removeSource
\* persists from a memory that holds S (out2)
SourceIds == {"s1", "s2", "s3"}

RemoveInput(S, sourceId) ==
    [kind |-> "removeSource", phase |-> "in", S |-> S, X |-> sourceId,
     out1 |-> S, out2 |-> S]

\* doneAt around the retention limit at T0: 25 hours, exactly
\* DONE_CLEANUP_HOURS, one millisecond less, and 23 hours in the past.
DoneTimes == {T0 - 25 * HOUR_MS, T0 - 24 * HOUR_MS, T0 - 24 * HOUR_MS + 1, T0 - 23 * HOUR_MS}

\* Ignore timestamps a file can hold when it is read at T0: 8 days, exactly
\* IGNORE_DURATION_DAYS, and one millisecond less in the past.
StoredIgnoreTimes == {T0 - 8 * DAY_MS, T0 - 7 * DAY_MS, T0 - 7 * DAY_MS + 1}

StoredPRs ==
    {TrackedPR(n, c, "a") : n \in PRNumbers, c \in Columns \ {"done"}}
    \cup {[TrackedPR(n, "done", "a") EXCEPT !.doneAt = d] : n \in PRNumbers, d \in DoneTimes}

RECURSIVE StoredLists(_)
StoredLists(n) ==
    IF n = 0 THEN {<<>>}
    ELSE LET shorter == StoredLists(n - 1)
         IN  shorter \cup
             {l \in {Append(q, p) : q \in {q \in shorter : Len(q) = n - 1}, p \in StoredPRs} :
                 DistinctIds(l)}

StoredLedgers(prs) ==
    UNION {[ids -> StoredIgnoreTimes] : ids \in SUBSET (PRIds \ Ids(prs))}

\* loadInboxState reading the file S at t1 (out1), and pollSource folding the
\* batch D into what was loaded at t2 (out2)
LoadInput(S, src, d, t2) ==
    [kind |-> "load", phase |-> "in", S |-> S, src |-> src, D |-> d,
     t1 |-> T0, t2 |-> t2, out1 |-> S, out2 |-> S]

NoApplication == [kind |-> "none", phase |-> "in"]

LoadOnce ==
    /\ h.kind = "load" /\ h.phase = "in"
    /\ h' = [h EXCEPT !.phase = "loaded", !.out1 = loadInboxState(h.S, h.t1)]
    /\ UNCHANGED <<now, disk, isPolling, rateLimitUntil, cycles, runs, last, streak, inboxStore, cmds>>

FoldLoaded ==
    /\ h.kind = "load" /\ h.phase = "loaded"
    /\ h' = [h EXCEPT !.phase = "folded", !.out2 = pollSource(h.out1, h.src, h.D, h.t2)]
    /\ UNCHANGED <<now, disk, isPolling, rateLimitUntil, cycles, runs, last, streak, inboxStore, cmds>>

RemoveSourceOnce ==
    /\ h.kind = "removeSource" /\ h.phase = "in"
    /\ h' = [h EXCEPT !.phase = "removed",
                      !.out1 = removeSource(h.S, h.X),
                      !.out2 = StoreRemoveSource(StoreOf(h.S), h.X).newState]
    /\ UNCHANGED <<now, disk, isPolling, rateLimitUntil, cycles, runs, last, streak, inboxStore, cmds>>

FoldOnce ==
    /\ h.kind = "upsert" /\ h.phase = "in"
    /\ h' = [h EXCEPT !.phase = "once", !.out1 = pollSource(h.S, h.src, h.D, h.t1)]
    /\ UNCHANGED <<now, disk, isPolling, rateLimitUntil, cycles, runs, last, streak, inboxStore, cmds>>

FoldTwice ==
    /\ h.kind = "upsert" /\ h.phase = "once"
    /\ h' = [h EXCEPT !.phase = "twice", !.out2 = pollSource(h.out1, h.src, h.D, h.t2)]
    /\ UNCHANGED <<now, disk, isPolling, rateLimitUntil, cycles, runs, last, streak, inboxStore, cmds>>

StatusPass ==
    /\ h.kind = "status" /\ h.phase = "in"
    /\ h' = [h EXCEPT !.phase = "checked",
                      !.out1 = checkPRStatusChanges(h.S, h.statusOf, h.t1)]
    /\ UNCHANGED <<now, disk, isPolling, rateLimitUntil, cycles, runs, last, streak, inboxStore, cmds>>

-----------------------------------------------------------------------------
(* electron/polling.ts: the scheduler *)

Slots == 1..MaxCycles

Idle == [pc |-> "idle", force |-> FALSE, state |-> getDefaultState, rem |-> <<>>,
         hit |-> FALSE, readFailed |-> FALSE, signal |-> FALSE]

InFlight == {c \in Slots : cycles[c].pc # "idle"}

\* What a handler did: its name, its argument (for pollSource: the batch its
\* adapter returned), how it ended, whether the backoff
\* deadline was in the future when it was called, the slot of the cycle it
\* belongs to (0: none) and the events it sent to the renderer.
Ran(op, force, result, backoff, slot, emitted) ==
    [op |-> op, force |-> force, result |-> result, backoff |-> backoff,
     slot |-> slot, emitted |-> emitted, arg |-> <<>>]

\* A step of a cycle in flight, or of the environment
Did(op, result, slot, emitted) == Ran(op, FALSE, result, FALSE, slot, emitted)

PollError(kind) == [type |-> "inbox:pollError", kind |-> kind, state |-> getDefaultState]
InboxUpdate(state) == [type |-> "inbox:update", kind |-> "state", state |-> state]

\* line 92
SkipsWhenBusy(force) == isPolling /\ ~force

\* runPoll without the backoff check
SkipsForBackoff_never(force) == FALSE

\* line 97
SkipsForBackoff(force) == ~force /\ rateLimitUntil > now

\* runPoll without the reset of the deadline
BackoffAfterEntry_kept(force) == rateLimitUntil

\* lines 104-106
BackoffAfterEntry(force) == IF force THEN 0 ELSE rateLimitUntil

\* runPoll up to its first await (lines 91-111)
RunPoll(force) ==
    \/ /\ SkipsWhenBusy(force)
       /\ last' = Ran("runPoll", force, "busy", rateLimitUntil > now, 0, <<>>)
       /\ UNCHANGED <<now, disk, isPolling, rateLimitUntil, cycles, runs, streak, h>>
    \/ /\ ~SkipsWhenBusy(force)
       /\ SkipsForBackoff(force)
       /\ last' = Ran("runPoll", force, "backoff", rateLimitUntil > now, 0,
                      <<PollError("rateLimited")>>)
       /\ UNCHANGED <<now, disk, isPolling, rateLimitUntil, cycles, runs, streak, h>>
    \/ /\ ~SkipsWhenBusy(force)
       /\ ~SkipsForBackoff(force)
       /\ Slots \ InFlight # {}
       /\ runs < MaxRuns
       /\ runs' = runs + 1
       /\ LET c == CHOOSE x \in Slots \ InFlight : \A y \in Slots \ InFlight : x <= y
          IN  /\ rateLimitUntil' = BackoffAfterEntry(force)
              /\ isPolling' = TRUE
              /\ cycles' = [cycles EXCEPT ![c] = [Idle EXCEPT !.pc = "load", !.force = force]]
              /\ last' = Ran("runPoll", force, "started", rateLimitUntil > now, c, <<>>)
       /\ streak' = (IF force THEN 0 ELSE streak)
       /\ UNCHANGED <<now, disk, h>>

\* The interval timer's callback (line 64) and the initial poll (line 60)
Tick == RunPoll(FALSE)

\* triggerPoll (lines 83-85)
Trigger == RunPoll(TRUE)

enabledSources(state) ==
    SelectSeq2(state.sources, {i \in 1..Len(state.sources) : state.sources[i].enabled})

\* runPoll without the early return of lines 114-120: the cycle goes on to
\* the status pass
AfterLoad_noFastPath(enabled) == IF enabled = <<>> THEN "status" ELSE "sources"

\* lines 114-120: with no enabled source the cycle goes straight to
\* saveInboxState
AfterLoad(enabled) == IF enabled = <<>> THEN "save" ELSE "sources"

\* lines 111-121: loadInboxState settles; the file is read, or reading or
\* parsing it fails and loadInboxState gives the default state
Load(c) ==
    /\ cycles[c].pc = "load"
    /\ \E readable \in BOOLEAN :
          LET state == IF readable THEN loadInboxState(disk, now) ELSE getDefaultState
              enabled == enabledSources(state)
          IN  /\ cycles' = [cycles EXCEPT
                               ![c].pc = AfterLoad(enabled),
                               ![c].state = IF enabled = <<>>
                                            THEN [state EXCEPT !.lastPollAt = now]
                                            ELSE state,
                               ![c].rem = enabled,
                               ![c].readFailed = ~readable]
              /\ last' = Did("load", IF readable THEN "ok" ELSE "unreadable", c, <<>>)
    /\ UNCHANGED <<now, disk, isPolling, rateLimitUntil, runs, streak, h>>

\* handlePollError without the cap of line 309
handlePollError_uncapped(rateLimited, until, t) ==
    IF rateLimited
    THEN LET currentBackoff == IF until - t > 0 THEN until - t ELSE 0
             doubled == IF currentBackoff * 2 = 0 THEN 60000 ELSE currentBackoff * 2
         IN  t + doubled
    ELSE until

\* handlePollError (lines 302-315): the deadline it leaves
handlePollError(rateLimited, until, t) ==
    IF rateLimited
    THEN LET currentBackoff == IF until - t > 0 THEN until - t ELSE 0
             doubled == IF currentBackoff * 2 = 0 THEN 60000 ELSE currentBackoff * 2
             nextBackoff == IF doubled < MAX_BACKOFF_MS THEN doubled ELSE MAX_BACKOFF_MS
         IN  t + nextBackoff
    ELSE until

NextPc(rem) == IF Len(rem) > 1 THEN "sources" ELSE "status"

\* runPoll without the try block around pollSource: the loop is left
AfterSourceError_leaveLoop(rem) == "status"

\* lines 125-127: the exception of pollSource is caught inside the loop, which
\* goes on with the next source
AfterSourceError(rem) == NextPc(rem)

\* lines 122-128, one turn of the loop: the adapter of the next enabled source
\* settles and its batch is folded
PollSourceStep(c) ==
    /\ cycles[c].pc = "sources"
    /\ LET source == Head(cycles[c].rem)
           advance == [cycles EXCEPT ![c].rem = Tail(cycles[c].rem),
                                     ![c].pc = NextPc(cycles[c].rem)]
       IN  \/ \* the adapter returns a batch
              /\ \E d \in Fetched :
                    /\ cycles' = [advance EXCEPT ![c].state =
                                     pollSource(cycles[c].state, source, d, now)]
                    /\ last' = [Did("pollSource", "ok", c, <<>>) EXCEPT !.arg = d]
              /\ UNCHANGED <<rateLimitUntil, streak>>
           \/ \* fetchSlackPRs caught an error: { prs: [], error }
              /\ source.type = "slack"
              /\ \E rateLimited \in BOOLEAN :
                    /\ cycles' = [advance EXCEPT
                                     ![c].state = pollSource(cycles[c].state, source, <<>>, now),
                                     ![c].signal = cycles[c].signal \/ rateLimited]
                    /\ last' = Did("pollSource",
                                   IF rateLimited THEN "softRateLimited" ELSE "softError", c,
                                   <<PollError("slack")>>)
              /\ UNCHANGED <<rateLimitUntil, streak>>
           \/ \* searchPRs throws
              /\ source.type = "github-search"
              /\ \E rateLimited \in BOOLEAN :
                    /\ rateLimitUntil' = handlePollError(rateLimited, rateLimitUntil, now)
                    /\ last' = Did("pollSource", IF rateLimited THEN "rateLimited" ELSE "threw", c,
                                   <<PollError(IF rateLimited THEN "backingOff" ELSE "source")>>)
                    /\ cycles' = [advance EXCEPT
                                     ![c].pc = AfterSourceError(cycles[c].rem),
                                     ![c].hit = cycles[c].hit \/ rateLimited,
                                     ![c].signal = cycles[c].signal \/ rateLimited]
                    /\ streak' = (IF rateLimited /\ ~cycles[c].force /\ ~cycles[c].hit
                                  THEN streak + 1 ELSE streak)
    /\ UNCHANGED <<now, disk, isPolling, runs, h>>

\* lines 131-139: the status lookups settle, their results are applied and
\* lastPollAt is stamped
StatusStep(c) ==
    /\ cycles[c].pc = "status"
    /\ \E statusOf \in [Ids(activePRs(cycles[c].state)) -> StatusResults] :
          cycles' = [cycles EXCEPT
                        ![c].pc = "save",
                        ![c].state = [checkPRStatusChanges(cycles[c].state, statusOf, now)
                                        EXCEPT !.lastPollAt = now]]
    /\ last' = Did("checkPRStatusChanges", "ok", c, <<>>)
    /\ UNCHANGED <<now, disk, isPolling, rateLimitUntil, runs, streak, h>>

\* The outer catch block without its emitPollError
CycleError_swallowed(message) == <<>>

\* lines 141-144: the events of the outer catch block
CycleError(message) == <<PollError(message)>>

\* The release at the end of the try block instead of in finally
ReleaseBusyFlag_onSuccess(threw) == IF threw THEN isPolling ELSE FALSE

\* line 146
ReleaseBusyFlag(threw) == FALSE

\* Finish with the update sent before saveInboxState is awaited
Finish_emitBeforeSave(c) ==
    /\ cycles[c].pc = "save"
    /\ \/ /\ disk' = cycles[c].state
          /\ isPolling' = ReleaseBusyFlag(FALSE)
          /\ last' = Did("finish", "ok", c, <<InboxUpdate(cycles[c].state)>>)
       \/ /\ UNCHANGED disk
          /\ isPolling' = ReleaseBusyFlag(TRUE)
          /\ last' = Did("finish", "threw", c,
                         <<InboxUpdate(cycles[c].state)>> \o CycleError("exception"))
    /\ cycles' = [cycles EXCEPT ![c] = Idle]
    /\ streak' = (IF ~cycles[c].force /\ ~cycles[c].hit THEN 0 ELSE streak)
    /\ UNCHANGED <<now, rateLimitUntil, runs, h>>

\* lines 117-119 and 139-147: saveInboxState settles.  The file is written and
\* the update is sent, or writing fails and the exception is caught and
\* reported; then the finally block runs.  Nothing else runs between the
\* settling of the write and the end of runPoll.
Finish(c) ==
    /\ cycles[c].pc = "save"
    /\ \/ /\ disk' = cycles[c].state
          /\ isPolling' = ReleaseBusyFlag(FALSE)
          /\ last' = Did("finish", "ok", c, <<InboxUpdate(cycles[c].state)>>)
       \/ /\ UNCHANGED disk
          /\ isPolling' = ReleaseBusyFlag(TRUE)
          /\ last' = Did("finish", "threw", c, CycleError("exception"))
    /\ cycles' = [cycles EXCEPT ![c] = Idle]
    /\ streak' = (IF ~cycles[c].force /\ ~cycles[c].hit THEN 0 ELSE streak)
    /\ UNCHANGED <<now, rateLimitUntil, runs, h>>

\* Time passes
Advance ==
    /\ now < T0 + MaxClockSteps * MINUTE_MS
    /\ now' = now + MINUTE_MS
    /\ last' = Did("clock", "ok", 0, <<>>)
    /\ UNCHANGED <<disk, isPolling, rateLimitUntil, cycles, runs, streak, h>>

-----------------------------------------------------------------------------
(* The persisted states the scheduler starts from *)

Disabled(source) == [source EXCEPT !.enabled = FALSE]

InitDisks ==
    { getDefaultState,
      [InboxState(<<>>, [id \in {generatePRId("o", "r", 1)} |-> T0 - DAY_MS])
          EXCEPT !.lastPollAt = Undefined],
      InboxState(<<TrackedPR(1, "reviewed", "a")>>, NoIgnores),
      [InboxState(<<TrackedPR(1, "inbox", "a")>>, NoIgnores)
          EXCEPT !.sources = <<Disabled(GitHubSource), Disabled(SlackSource)>>],
      [InboxState(<<TrackedPR(1, "done", "a")>>, NoIgnores)
          EXCEPT !.sources = <<GitHubSource>>],
      [InboxState(<<>>, NoIgnores) EXCEPT !.sources = <<GitHubSource>>] }

Init ==
    /\ now = T0
    /\ disk \in InitDisks
    /\ isPolling = FALSE
    /\ rateLimitUntil = 0
    /\ cycles = [c \in Slots |-> Idle]
    /\ runs = 0
    /\ streak = 0
    /\ inboxStore = StoreOf(getDefaultState)
    /\ cmds = 0
    /\ last = Did("init", "ok", 0, <<>>)
    /\ h = NoApplication

\* The main process alone: no renderer store is initialised, no listener is
\* registered for the events
Next ==
    \/ Tick /\ UNCHANGED <<inboxStore, cmds>>
    \/ Trigger /\ UNCHANGED <<inboxStore, cmds>>
    \/ \E c \in Slots : Load(c) /\ UNCHANGED <<inboxStore, cmds>>
    \/ \E c \in Slots : PollSourceStep(c) /\ UNCHANGED <<inboxStore, cmds>>
    \/ \E c \in Slots : StatusStep(c) /\ UNCHANGED <<inboxStore, cmds>>
    \/ \E c \in Slots : Finish(c) /\ UNCHANGED <<inboxStore, cmds>>
    \/ Advance /\ UNCHANGED <<inboxStore, cmds>>

Spec == Init /\ [][Next]_vars

(* The scheduler driven by its timer alone: no manual refresh *)

NextAuto ==
    \/ Tick /\ UNCHANGED <<inboxStore, cmds>>
    \/ \E c \in Slots : Load(c) /\ UNCHANGED <<inboxStore, cmds>>
    \/ \E c \in Slots : PollSourceStep(c) /\ UNCHANGED <<inboxStore, cmds>>
    \/ \E c \in Slots : StatusStep(c) /\ UNCHANGED <<inboxStore, cmds>>
    \/ \E c \in Slots : Finish(c) /\ UNCHANGED <<inboxStore, cmds>>
    \/ Advance /\ UNCHANGED <<inboxStore, cmds>>

SpecAuto == Init /\ [][NextAuto]_vars

-----------------------------------------------------------------------------
(* The renderer's store: the user's commands.  The triggerPoll calls that   *)
(* refresh() sends to the main process are counted in polls; the poll       *)
(* cycles themselves are the scheduler's, above.                            *)

\* A store command that ran: its name, its argument and how it ended
Cmd(op, arg, result) == [Did(op, result, 0, <<>>) EXCEPT !.arg = arg]

Commands == {"addSource", "removeSource", "updateSource", "addPR", "movePR", "ignorePR"}

\* The program starts again after it was killed: the main process has its
\* initial globals, the store is initialised from the file
Restarted(file) ==
    /\ inboxStore' = StoreOf(loadInboxState(file, now))
    /\ isPolling' = FALSE
    /\ rateLimitUntil' = 0
    /\ cycles' = [c \in Slots |-> Idle]
    /\ streak' = 0

\* A command's try/catch around saveInboxState.  cmd is what the command
\* computed from the store; refresh says whether it calls refresh() after its
\* set().  The save succeeds, or it fails, or the program is killed before or
\* after the file is written.
Persist(op, arg, cmd, refresh) ==
    /\ cmds < MaxCommands
    /\ cmds' = cmds + 1
    /\ \/ /\ disk' = cmd.newState
          /\ inboxStore' = (IF refresh
                            THEN [(cmd.patch @@ inboxStore) EXCEPT !.error = NoError,
                                                                   !.polls = @ + 1]
                            ELSE cmd.patch @@ inboxStore)
          /\ last' = Cmd(op, arg, "saved")
          /\ UNCHANGED <<isPolling, rateLimitUntil, cycles, streak>>
       \/ /\ UNCHANGED disk
          /\ inboxStore' = AfterFailedSave(inboxStore, cmd)
          /\ last' = Cmd(op, arg, "failed")
          /\ UNCHANGED <<isPolling, rateLimitUntil, cycles, streak>>
       \/ \E written \in BOOLEAN :
             /\ disk' = (IF written THEN cmd.newState ELSE disk)
             /\ Restarted(IF written THEN cmd.newState ELSE disk)
             /\ last' = Cmd(op, arg, IF written THEN "killedAfterWrite"
                                                ELSE "killedBeforeWrite")
    /\ UNCHANGED <<now, runs, h>>

AddSourceCmd ==
    \E source \in {GitHubSource, SlackSource} :
        Persist("addSource", source.id, StoreAddSource(inboxStore, source), TRUE)

RemoveSourceCmd ==
    \E sourceId \in {GitHubSource.id, SlackSource.id} :
        Persist("removeSource", sourceId, StoreRemoveSource(inboxStore, sourceId), FALSE)

UpdateSourceCmd ==
    \E sourceId \in {GitHubSource.id, SlackSource.id}, enabled \in BOOLEAN :
        Persist("updateSource", sourceId,
                StoreUpdateSource(inboxStore, sourceId, [enabled |-> enabled]), FALSE)

\* A PR the user adds by hand
ManualPR(n, t) == [TrackedPR(n, "inbox", "a") EXCEPT !.addedAt = t, !.lastCheckedAt = t]

AddPRCmd ==
    \E n \in PRNumbers :
        LET pr == ManualPR(n, now)
        IN  IF pr.id \in Ids(inboxStore.prs)
            THEN /\ cmds < MaxCommands
                 /\ cmds' = cmds + 1
                 /\ last' = Cmd("addPR", pr.id, "duplicate")
                 /\ UNCHANGED <<now, disk, isPolling, rateLimitUntil, cycles, runs,
                                streak, inboxStore, h>>
            ELSE Persist("addPR", pr.id, StoreAddPR(inboxStore, pr), FALSE)

MovePRCmd ==
    \E prId \in PRIds, column \in Columns :
        Persist("movePR", prId, StoreMovePR(inboxStore, prId, column, now), FALSE)

IgnorePRCmd ==
    \E prId \in PRIds :
        Persist("ignorePR", prId, StoreIgnorePR(inboxStore, prId, now), FALSE)

StoreDisks ==
    { [InboxState(<<TrackedPR(1, "inbox", "a")>>, NoIgnores) EXCEPT !.sources = <<GitHubSource>>],
      InboxState(<<TrackedPR(1, "reviewed", "a"), TrackedPR(2, "inbox", "a")>>, NoIgnores) }

InitStore ==
    /\ now = T0
    /\ disk \in StoreDisks
    /\ isPolling = FALSE
    /\ rateLimitUntil = 0
    /\ cycles = [c \in Slots |-> Idle]
    /\ runs = 0
    /\ streak = 0
    /\ inboxStore = StoreOf(loadInboxState(disk, now))
    /\ cmds = 0
    /\ last = Did("init", "ok", 0, <<>>)
    /\ h = NoApplication

NextStore ==
    \/ AddSourceCmd
    \/ RemoveSourceCmd
    \/ UpdateSourceCmd
    \/ AddPRCmd
    \/ MovePRCmd
    \/ IgnorePRCmd
    \/ Advance /\ UNCHANGED <<inboxStore, cmds>>

SpecStore == InitStore /\ [][NextStore]_vars

-----------------------------------------------------------------------------
(* The store's commands beside the timer's poll cycles.  Both processes read  *)
(* and write the one file; the events of a cycle reach the store's listeners  *)
(* in the step that sends them.                                               *)

\* inboxStore.ts lines 83-98: the listeners of inbox:update and inbox:pollError
OnEvent(store, event) ==
    IF event.type = "inbox:update"
    THEN [store EXCEPT !.prs = event.state.prs,
                       !.sources = event.state.sources,
                       !.lastPollAt = event.state.lastPollAt]
    ELSE [store EXCEPT !.error = event.kind]

RECURSIVE Deliver(_, _)
Deliver(store, events) ==
    IF events = <<>> THEN store
    ELSE Deliver(OnEvent(store, Head(events)), Tail(events))

\* A step of the main process and the listeners it wakes
Heard == inboxStore' = Deliver(inboxStore, last'.emitted) /\ UNCHANGED cmds

NextRace ==
    \/ Tick /\ Heard
    \/ \E c \in Slots : Load(c) /\ Heard
    \/ \E c \in Slots : PollSourceStep(c) /\ Heard
    \/ \E c \in Slots : StatusStep(c) /\ Heard
    \/ \E c \in Slots : Finish(c) /\ Heard
    \/ cmds < MaxRaceCommands /\ AddSourceCmd
    \/ cmds < MaxRaceCommands /\ RemoveSourceCmd
    \/ cmds < MaxRaceCommands /\ UpdateSourceCmd
    \/ cmds < MaxRaceCommands /\ IgnorePRCmd

SpecRace == InitStore /\ [][NextRace]_vars

\* The user's moves and additions of PRs beside the poll cycles
NextMoves ==
    \/ Tick /\ Heard
    \/ \E c \in Slots : Load(c) /\ Heard
    \/ \E c \in Slots : PollSourceStep(c) /\ Heard
    \/ \E c \in Slots : StatusStep(c) /\ Heard
    \/ \E c \in Slots : Finish(c) /\ Heard
    \/ cmds < MaxRaceCommands /\ MovePRCmd
    \/ cmds < MaxRaceCommands /\ AddPRCmd

SpecMoves == InitStore /\ [][NextMoves]_vars

-----------------------------------------------------------------------------
(* One application of a pure function to inputs drawn from bounded sets *)

InitPure ==
    /\ now = T0
    /\ disk = getDefaultState
    /\ isPolling = FALSE
    /\ rateLimitUntil = 0
    /\ cycles = [c \in Slots |-> Idle]
    /\ runs = 0
    /\ streak = 0
    /\ inboxStore = StoreOf(getDefaultState)
    /\ cmds = 0
    /\ last = Did("init", "ok", 0, <<>>)
    /\ \/ \E S \in InboxStates({"a"}), src \in {GitHubSource, SlackSource},
             d \in Batches :
                h = UpsertInput(S, src, d, T0 + MINUTE_MS)
       \/ \E prs \in InboxLists({"", "a"}, NumPRs), statusOf \in [PRIds -> StatusResults] :
                h = StatusInput(InboxState(prs, NoIgnores), statusOf)
       \/ \E S \in InboxStates({"a"}), sourceId \in SourceIds :
                h = RemoveInput(S, sourceId)
       \/ \E prs \in StoredLists(NumPRs) :
             \E ign \in StoredLedgers(prs), src \in {GitHubSource, SlackSource},
                d \in {<<x>> : x \in Discovered} :
                h = LoadInput(InboxState(prs, ign), src, d, T0 + MINUTE_MS)

NextPure ==
    FoldOnce \/ FoldTwice \/ StatusPass \/ RemoveSourceOnce \/ LoadOnce \/ FoldLoaded

SpecPure == InitPure /\ [][NextPure]_vars

-----------------------------------------------------------------------------
(* The backoff deadline on its own: the calls of handlePollError that cycles  *)
(* with any number of GitHub sources make, the manual refreshes that reset    *)
(* the deadline, and the clock.  streak counts the errors handled.            *)

\* lines 125-127 and 302-315: searchPRs of some source threw
SourceError ==
    /\ streak < MaxErrors
    /\ streak' = streak + 1
    /\ \E rateLimited \in BOOLEAN :
          /\ rateLimitUntil' = handlePollError(rateLimited, rateLimitUntil, now)
          /\ last' = Did("handlePollError", IF rateLimited THEN "rateLimited" ELSE "threw", 0,
                         <<PollError(IF rateLimited THEN "backingOff" ELSE "source")>>)
    /\ UNCHANGED <<now, disk, isPolling, cycles, runs, inboxStore, cmds, h>>

\* lines 104-106: a manual refresh enters runPoll
ManualReset ==
    /\ rateLimitUntil # BackoffAfterEntry(TRUE)
    /\ rateLimitUntil' = BackoffAfterEntry(TRUE)
    /\ last' = Ran("runPoll", TRUE, "started", rateLimitUntil > now, 0, <<>>)
    /\ UNCHANGED <<now, disk, isPolling, cycles, runs, streak, inboxStore, cmds, h>>

NextBackoff ==
    \/ SourceError
    \/ ManualReset
    \/ Advance /\ UNCHANGED <<inboxStore, cmds>>

SpecBackoff == Init /\ [][NextBackoff]_vars

-----------------------------------------------------------------------------
(* The interval timer on its own: startPolling and stopPolling (lines 50-77). *)
(* h holds the module's pollTimer (0 for null, else the handle setInterval    *)
(* returned), the handles of the intervals that are running, the calls of     *)
(* startPolling whose loadInboxState has not settled yet, the initial polls   *)
(* made, the calls so far and the last of them.                               *)

NoTimer == 0

TimerState ==
    [kind |-> "timer", phase |-> "in", pollTimer |-> NoTimer, active |-> {}, loading |-> 0,
     handles |-> 0, polls |-> 0, calls |-> 0, lastCall |-> "none"]

\* lines 50-56: the test of pollTimer, then loadInboxState is awaited
StartPolling ==
    /\ h.kind = "timer" /\ h.calls < MaxTimerCalls
    /\ h' = [h EXCEPT !.calls = @ + 1, !.lastCall = "start",
                      !.loading = IF h.pollTimer # NoTimer THEN @ ELSE @ + 1]
    /\ last' = Did("startPolling", IF h.pollTimer # NoTimer THEN "running" ELSE "loading", 0, <<>>)
    /\ UNCHANGED <<now, disk, isPolling, rateLimitUntil, cycles, runs, streak, inboxStore, cmds>>

\* lines 56-66: loadInboxState settles for one call of startPolling: the
\* initial poll is made and setInterval's handle is stored in pollTimer
IntervalSet ==
    /\ h.kind = "timer" /\ h.loading > 0
    /\ h' = [h EXCEPT !.loading = @ - 1, !.polls = @ + 1, !.handles = @ + 1,
                      !.pollTimer = h.handles + 1,
                      !.active = @ \cup {h.handles + 1}]
    /\ last' = Did("setInterval", "ok", 0, <<>>)
    /\ UNCHANGED <<now, disk, isPolling, rateLimitUntil, cycles, runs, streak, inboxStore, cmds>>

\* lines 72-77
StopPolling ==
    /\ h.kind = "timer" /\ h.calls < MaxTimerCalls
    /\ h' = [h EXCEPT !.calls = @ + 1, !.lastCall = "stop",
                      !.active = @ \ {h.pollTimer},
                      !.pollTimer = NoTimer]
    /\ last' = Did("stopPolling", IF h.pollTimer # NoTimer THEN "cleared" ELSE "none", 0, <<>>)
    /\ UNCHANGED <<now, disk, isPolling, rateLimitUntil, cycles, runs, streak, inboxStore, cmds>>

InitTimer ==
    /\ now = T0
    /\ disk = getDefaultState
    /\ isPolling = FALSE
    /\ rateLimitUntil = 0
    /\ cycles = [c \in Slots |-> Idle]
    /\ runs = 0
    /\ streak = 0
    /\ inboxStore = StoreOf(getDefaultState)
    /\ cmds = 0
    /\ last = Did("init", "ok", 0, <<>>)
    /\ h = TimerState

NextTimer == StartPolling \/ IntervalSet \/ StopPolling

SpecTimer == InitTimer /\ [][NextTimer]_vars

-----------------------------------------------------------------------------
(* The lookups of one status pass.  h.columns is the column of each PR of the *)
(* state checkPRStatusChanges is given; a PR is named by its index in prs.    *)
(* h.i is the loop variable, h.inFlight the PRs whose getPRStatus promise is  *)
(* pending, h.looked how often getPRStatus was called for each PR and         *)
(* h.results the settled lookups in the order they were pushed.               *)

\* Array.prototype.slice(from, to) with 0-based bounds
slice(seq, from, to) ==
    SubSeq(seq, from + 1, IF to < Len(seq) THEN to ELSE Len(seq))

\* line 230, by index
activeIndices(columns) ==
    SelectSeq2([k \in 1..Len(columns) |-> k], {k \in 1..Len(columns) : columns[k] # "done"})

\* line 237 with every PR from i on in one batch
batchAt_unbounded(active, i) == slice(active, i, Len(active))

\* line 237
batchAt(active, i) == slice(active, i, i + PR_STATUS_CONCURRENCY)

Range(seq) == {seq[k] : k \in 1..Len(seq)}

StatusLoop(columns) ==
    [kind |-> "lookups", phase |-> "loop", columns |-> columns, i |-> 0, batch |-> <<>>,
     inFlight |-> {}, settled |-> NoIgnores, looked |-> [k \in 1..Len(columns) |-> 0],
     results |-> <<>>, batches |-> 0]

\* lines 236-243: the loop test holds, the batch is sliced and batch.map calls
\* getPRStatus for each of its PRs
StartBatch ==
    /\ h.kind = "lookups" /\ h.phase = "loop"
    /\ h.i < Len(activeIndices(h.columns))
    /\ LET batch == batchAt(activeIndices(h.columns), h.i)
       IN  h' = [h EXCEPT !.phase = "await", !.batch = batch, !.inFlight = Range(batch),
                          !.settled = NoIgnores,
                          !.looked = [k \in 1..Len(h.columns) |->
                                         h.looked[k] + Cardinality({n \in 1..Len(batch) : batch[n] = k})],
                          !.batches = @ + 1]
    /\ UNCHANGED <<now, disk, isPolling, rateLimitUntil, cycles, runs, last, streak, inboxStore, cmds>>

\* One getPRStatus promise of the batch fulfils or rejects
SettleLookup ==
    /\ h.kind = "lookups" /\ h.phase = "await"
    /\ \E k \in h.inFlight, outcome \in {"fulfilled", "rejected"} :
          h' = [h EXCEPT !.inFlight = @ \ {k},
                         !.settled = @ @@ [x \in {k} |-> outcome]]
    /\ UNCHANGED <<now, disk, isPolling, rateLimitUntil, cycles, runs, last, streak, inboxStore, cmds>>

\* lines 238 and 246-254: Promise.allSettled resolves, the results are pushed
\* in the order of the batch and i advances
BatchSettled ==
    /\ h.kind = "lookups" /\ h.phase = "await" /\ h.inFlight = {}
    /\ h' = [h EXCEPT !.phase = "loop", !.i = @ + PR_STATUS_CONCURRENCY,
                      !.results = @ \o [n \in 1..Len(h.batch) |->
                                           [pr |-> h.batch[n], outcome |-> h.settled[h.batch[n]]]]]
    /\ UNCHANGED <<now, disk, isPolling, rateLimitUntil, cycles, runs, last, streak, inboxStore, cmds>>

\* line 236: the loop test fails and the results are applied
LoopDone ==
    /\ h.kind = "lookups" /\ h.phase = "loop"
    /\ ~(h.i < Len(activeIndices(h.columns)))
    /\ h' = [h EXCEPT !.phase = "apply"]
    /\ UNCHANGED <<now, disk, isPolling, rateLimitUntil, cycles, runs, last, streak, inboxStore, cmds>>

RECURSIVE ColumnLists(_)
\* The lists of at most n columns, done or not
ColumnLists(n) ==
    IF n = 0 THEN {<<>>}
    ELSE LET shorter == ColumnLists(n - 1)
         IN  shorter \cup {Append(l, c) : l \in {x \in shorter : Len(x) = n - 1},
                                           c \in {"inbox", "done"}}

InitLookups ==
    /\ now = T0
    /\ disk = getDefaultState
    /\ isPolling = FALSE
    /\ rateLimitUntil = 0
    /\ cycles = [c \in Slots |-> Idle]
    /\ runs = 0
    /\ streak = 0
    /\ inboxStore = StoreOf(getDefaultState)
    /\ cmds = 0
    /\ last = Did("init", "ok", 0, <<>>)
    /\ \E columns \in ColumnLists(MaxStatusPRs) : h = StatusLoop(columns)

NextLookups ==
    \/ StartBatch
    \/ SettleLookup
    \/ BatchSettled
    \/ LoopDone

SpecLookups == InitLookups /\ [][NextLookups]_vars

-----------------------------------------------------------------------------
(* A Slack channel and the cycles that fetch it.  The file lists a PR of the  *)
(* channel's source, so every fetch is made with `since`.  h holds the times  *)
(* at which messages were posted, the messages that some fetch returned, and  *)
(* whether a cycle is between its fetch and its stamp of lastPollAt.          *)

\* pollSource lines 161-162: the `since` passed to fetchSlackPRs
SinceOf(state, source) ==
    IF \E i \in 1..Len(state.prs) : state.prs[i].sourceId = source.id
    THEN state.lastPollAt
    ELSE Undefined

\* fetchChannelMessages: `oldest` is since in whole epoch seconds, and
\* conversations.history returns the messages after it
ReturnedSince(since, postedAt) ==
    since = Undefined \/ postedAt > (since \div 1000) * 1000

ChannelState ==
    [kind |-> "channel", phase |-> "idle", posted |-> {}, seen |-> {}, since |-> Undefined,
     fetchedAt |-> Undefined, ok |-> FALSE]

\* Somebody posts a message to the channel
PostMessage ==
    /\ h.kind = "channel" /\ now \notin h.posted
    /\ h' = [h EXCEPT !.posted = @ \cup {now}]
    /\ last' = Did("post", "ok", 0, <<>>)
    /\ UNCHANGED <<now, disk, isPolling, rateLimitUntil, cycles, runs, streak, inboxStore, cmds>>

\* lines 111 and 158-169: a cycle loads the file and fetchSlackPRs settles,
\* with the messages after `since` or with an error
ChannelFetch ==
    /\ h.kind = "channel" /\ h.phase = "idle"
    /\ runs < MaxRuns
    /\ runs' = runs + 1
    /\ \E ok \in BOOLEAN :
          LET since == SinceOf(loadInboxState(disk, now), SlackSource)
          IN  /\ h' = [h EXCEPT !.phase = "fetched", !.since = since, !.fetchedAt = now,
                                !.ok = ok,
                                !.seen = IF ok
                                         THEN @ \cup {m \in h.posted : ReturnedSince(since, m)}
                                         ELSE @]
              /\ last' = Did("pollSource", IF ok THEN "ok" ELSE "softError", 0,
                             IF ok THEN <<>> ELSE <<PollError("slack")>>)
    /\ UNCHANGED <<now, disk, isPolling, rateLimitUntil, cycles, streak, inboxStore, cmds>>

\* lines 131-140: the status pass is over, lastPollAt is stamped and the state
\* is saved
ChannelStamp ==
    /\ h.kind = "channel" /\ h.phase = "fetched"
    /\ h' = [h EXCEPT !.phase = "idle"]
    /\ disk' = [disk EXCEPT !.lastPollAt = now]
    /\ last' = Did("finish", "ok", 0, <<InboxUpdate(disk')>>)
    /\ UNCHANGED <<now, isPolling, rateLimitUntil, cycles, runs, streak, inboxStore, cmds>>

InitChannel ==
    /\ now = T0
    /\ disk = InboxState(<<TrackedPR(2, "inbox", "a")>>, NoIgnores)
    /\ isPolling = FALSE
    /\ rateLimitUntil = 0
    /\ cycles = [c \in Slots |-> Idle]
    /\ runs = 0
    /\ streak = 0
    /\ inboxStore = StoreOf(getDefaultState)
    /\ cmds = 0
    /\ last = Did("init", "ok", 0, <<>>)
    /\ h = ChannelState

NextChannel ==
    \/ PostMessage
    \/ ChannelFetch
    \/ ChannelStamp
    \/ Advance /\ UNCHANGED <<inboxStore, cmds>>

SpecChannel == InitChannel /\ [][NextChannel]_vars

-----------------------------------------------------------------------------
(* One poll cycle on its own: the body of runPoll's try block (lines 111-139) *)
(* with nothing else running, from the file it loads to the state it saves.   *)

\* The records the Slack adapter returns: an earlier version of the adapter
\* (parseSlackResponse) gives headSha '' when the answer names none.
SlackDiscovered ==
    Discovered \cup
    {[owner |-> "o", repo |-> "r", number |-> n, title |-> "t1", headSha |-> ""] :
        n \in PRNumbers}

\* The batches the adapter of a source returns to a cycle
FetchedFrom(source) ==
    IF source.type = "slack"
    THEN SeqsUpTo({d \in SlackDiscovered : d.number <= SchedPRs}, MaxFetched)
    ELSE Fetched

RECURSIVE PollSources(_, _, _, _)
\* lines 122-128 when no adapter throws: batches[i] is what the adapter of
\* sources[i] returned
PollSources(state, sources, batches, t) ==
    IF sources = <<>> THEN state
    ELSE PollSources(pollSource(state, Head(sources), Head(batches), t),
                     Tail(sources), Tail(batches), t)

\* The files a cycle loads: those the scheduler starts from, an empty inbox
\* whose one source is the GitHub search and whose ledger has a live entry, and
\* an inbox with a PR that was added by hand through the store's addPR with
\* no head commit and has been reviewed since, empty inboxes with the two
\* sources registered in either order, and inboxes with a PR in column inbox
\* or needs-attention
CycleFiles ==
    InitDisks \cup
    { [InboxState(<<>>, [id \in {generatePRId("o", "r", 1)} |-> T0 - DAY_MS])
          EXCEPT !.sources = <<GitHubSource>>],
      InboxState(<<TrackedPR(1, "reviewed", "")>>, NoIgnores),
      InboxState(<<>>, NoIgnores),
      [InboxState(<<>>, NoIgnores) EXCEPT !.sources = <<SlackSource, GitHubSource>>],
      InboxState(<<TrackedPR(1, "inbox", "a")>>, NoIgnores),
      InboxState(<<TrackedPR(1, "needs-attention", "a")>>, NoIgnores),
      [InboxState(<<[TrackedPR(1, "done", "a")
                        EXCEPT !.addedAt = T0 - 3 * DAY_MS, !.doneAt = T0 - 2 * DAY_MS]>>,
                  NoIgnores)
          EXCEPT !.sources = <<GitHubSource>>] }

\* A cycle that loads the file S at t1 and folds the batches D at t1 (out1),
\* then makes its status pass at t2 with the lookups settling as statusOf and
\* saves out2
CycleInput(S) ==
    [kind |-> "cycle", phase |-> "in", S |-> S, D |-> <<>>, statusOf |-> NoIgnores,
     t1 |-> T0, t2 |-> T0, out1 |-> S, out2 |-> S]

\* lines 111-128: the file is loaded and the adapters of the enabled sources
\* return their batches
FetchAll ==
    /\ h.kind = "cycle" /\ h.phase = "in"
    /\ LET state == loadInboxState(h.S, h.t1)
           enabled == enabledSources(state)
       IN  \E D \in [1..Len(enabled) -> UNION {FetchedFrom(src) : src \in {GitHubSource, SlackSource}}] :
              /\ \A i \in 1..Len(enabled) : D[i] \in FetchedFrom(enabled[i])
              /\ h' = [h EXCEPT
                          !.phase = IF AfterLoad(enabled) = "save" THEN "saved" ELSE "fetched",
                          !.D = D,
                          !.out1 = PollSources(state, enabled, D, h.t1),
                          !.out2 = [state EXCEPT !.lastPollAt = h.t1]]
    /\ UNCHANGED <<now, disk, isPolling, rateLimitUntil, cycles, runs, last, streak, inboxStore, cmds>>

\* lines 131-137: the status pass, at once or a minute after the sources were
\* polled
CheckAll ==
    /\ h.kind = "cycle" /\ h.phase = "fetched"
    /\ \E statusOf \in [Ids(activePRs(h.out1)) -> StatusResults], t2 \in {h.t1, h.t1 + MINUTE_MS} :
          h' = [h EXCEPT !.phase = "saved", !.statusOf = statusOf, !.t2 = t2,
                         !.out2 = [checkPRStatusChanges(h.out1, statusOf, t2)
                                     EXCEPT !.lastPollAt = t2]]
    /\ UNCHANGED <<now, disk, isPolling, rateLimitUntil, cycles, runs, last, streak, inboxStore, cmds>>

InitCycle ==
    /\ now = T0
    /\ disk = getDefaultState
    /\ isPolling = FALSE
    /\ rateLimitUntil = 0
    /\ cycles = [c \in Slots |-> Idle]
    /\ runs = 0
    /\ streak = 0
    /\ inboxStore = StoreOf(getDefaultState)
    /\ cmds = 0
    /\ last = Did("init", "ok", 0, <<>>)
    /\ \E S \in CycleFiles : h = CycleInput(S)

NextCycle == FetchAll \/ CheckAll

SpecCycle == InitCycle /\ [][NextCycle]_vars

-----------------------------------------------------------------------------
(* Properties *)

\* An ignore entry is live at t: it is younger than IGNORE_DURATION_DAYS.
Live(id, ignored, t) ==
    id \in DOMAIN ignored /\ t - ignored[id] < IGNORE_DURATION_DAYS * DAY_MS

BatchIds(d) == {generatePRId(d[i].owner, d[i].repo, d[i].number) : i \in 1..Len(d)}

SameButLastChecked(a, b) ==
    /\ Len(a) = Len(b)
    /\ \A i \in 1..Len(a) :
          [a[i] EXCEPT !.lastCheckedAt = Undefined] = [b[i] EXCEPT !.lastCheckedAt = Undefined]

Folded == h.kind = "upsert" /\ h.phase \in {"once", "twice"}
FoldedTwice == h.kind = "upsert" /\ h.phase = "twice"

\* C1 as stated: folding a batch into the result of folding it gives the same
\* prs list as folding it once, up to lastCheckedAt.
C1_IdempotentUpsert_Original ==
    FoldedTwice => SameButLastChecked(h.out2.prs, h.out1.prs)

\* No ignore entry that suppressed a PR of the batch in the first fold has
\* expired by the second.
NoExpiryBetweenFolds ==
    \A id \in BatchIds(h.D) \ Ids(h.out1.prs) :
        Live(id, h.S.ignoredPRIds, h.t1) => Live(id, h.S.ignoredPRIds, h.t2)

\* C1 (amended): folding a batch twice gives the same prs list as folding it
\* once (same ids, order, column, addedAt, reviewedAt, doneAt, title, headSha,
\* sourceId; only lastCheckedAt may differ), provided no ignore entry that
\* suppressed a PR of the batch in the first fold expires before the second.
C1_IdempotentUpsert ==
    (FoldedTwice /\ NoExpiryBetweenFolds) => SameButLastChecked(h.out2.prs, h.out1.prs)

\* A batch that repeats a new PR with two titles was folded twice, the second
\* time later than the first.
C1_Witness ==
    /\ FoldedTwice /\ NoExpiryBetweenFolds
    /\ Len(h.D) = 2 /\ h.D[1].number = h.D[2].number /\ h.D[1].title # h.D[2].title
    /\ BatchIds(h.D) \cap Ids(h.S.prs) = {}
    /\ Len(h.out1.prs) = Len(h.S.prs) + 1
    /\ h.t2 > h.t1

\* The discovered records of the batch d with the id of p
Rediscoveries(d, p) ==
    {i \in 1..Len(d) : generatePRId(d[i].owner, d[i].repo, d[i].number) = p.id}

\* C2: a PR that is already listed is refreshed by the fold in title, headSha
\* and lastCheckedAt only: its place, column, addedAt, reviewedAt, doneAt (and
\* id, source, sourceId) stay, and a listed PR that the batch does not
\* contain is unchanged.
C2_UpsertRefreshesOnly ==
    (h.kind = "upsert" /\ h.phase = "once") =>
        /\ Len(h.out1.prs) >= Len(h.S.prs)
        /\ \A i \in 1..Len(h.S.prs) :
              LET p == h.S.prs[i]
                  q == h.out1.prs[i]
              IN  IF Rediscoveries(h.D, p) = {} THEN q = p
                  ELSE /\ [q EXCEPT !.title = p.title, !.headSha = p.headSha,
                                    !.lastCheckedAt = p.lastCheckedAt] = p
                       /\ \E k \in Rediscoveries(h.D, p) :
                             q.title = h.D[k].title /\ q.headSha = h.D[k].headSha
                       /\ q.lastCheckedAt = h.t1

\* A reviewed PR was rediscovered with another head commit next to a PR the
\* batch does not contain.
C2_Witness ==
    /\ h.kind = "upsert" /\ h.phase = "once"
    /\ Len(h.S.prs) = 2
    /\ h.S.prs[1].column = "reviewed" /\ Rediscoveries(h.D, h.S.prs[1]) # {}
    /\ h.out1.prs[1].headSha = "b" /\ h.out1.prs[1].column = "reviewed"
    /\ Rediscoveries(h.D, h.S.prs[2]) = {}

\* C3: a PR that is not listed and has a live ignore entry is not added by a
\* fold of a batch that contains it, whatever the source.
C3_IgnoreSuppression ==
    (h.kind = "upsert" /\ h.phase = "once") =>
        \A id \in BatchIds(h.D) :
            (id \notin Ids(h.S.prs) /\ Live(id, h.S.ignoredPRIds, h.t1))
                => id \notin Ids(h.out1.prs)

\* A batch with an ignored PR and a PR that is not ignored was folded: the
\* second was added, the first was not.
C3_Witness ==
    /\ h.kind = "upsert" /\ h.phase = "once"
    /\ \E id \in BatchIds(h.D) :
          /\ id \notin Ids(h.S.prs) /\ Live(id, h.S.ignoredPRIds, h.t1)
          /\ h.S.ignoredPRIds[id] = T0 - 7 * DAY_MS + 1
          /\ id \notin Ids(h.out1.prs)
    /\ Len(h.out1.prs) = Len(h.S.prs) + 1

Checked == h.kind = "status" /\ h.phase = "checked"

\* The lookup of the listed PR p succeeded and reports it open with another
\* head commit than the stored, non-empty one.
NewCommit(p) ==
    /\ p.column # "done"
    /\ ~h.statusOf[p.id].failed /\ h.statusOf[p.id].state = "open"
    /\ p.headSha # "" /\ h.statusOf[p.id].headSha # p.headSha

\* C5: an open PR with a new head commit moves to needs-attention exactly if
\* it was in reviewed, keeps its column in inbox and needs-attention, and in
\* both cases takes the fetched headSha.
C5_NeedsAttentionTrigger ==
    Checked =>
        \A i \in 1..Len(h.S.prs) :
            NewCommit(h.S.prs[i]) =>
                /\ h.out1.prs[i].column =
                      (IF h.S.prs[i].column = "reviewed" THEN "needs-attention"
                       ELSE h.S.prs[i].column)
                /\ h.out1.prs[i].headSha = h.statusOf[h.S.prs[i].id].headSha

\* A reviewed PR and an inbox PR both got a new commit: the first moved, the
\* second did not.
C5_Witness ==
    /\ Checked /\ Len(h.S.prs) = 2
    /\ NewCommit(h.S.prs[1]) /\ NewCommit(h.S.prs[2])
    /\ h.S.prs[1].column = "reviewed" /\ h.out1.prs[1].column = "needs-attention"
    /\ h.S.prs[2].column = "inbox" /\ h.out1.prs[2].column = "inbox"
    /\ h.out1.prs[2].headSha = "b"

\* The lookup of the listed PR p succeeded and reports it merged or closed.
MergedOrClosed(p) ==
    /\ p.column # "done"
    /\ ~h.statusOf[p.id].failed /\ h.statusOf[p.id].state \in {"merged", "closed"}

\* C6: a PR that is not done and is reported merged or closed ends the status
\* pass in done with doneAt stamped, whatever its column and head commit.
C6_MergedOrClosedFirst ==
    Checked =>
        \A i \in 1..Len(h.S.prs) :
            MergedOrClosed(h.S.prs[i]) =>
                /\ h.out1.prs[i].column = "done"
                /\ h.out1.prs[i].doneAt = h.t1

\* A reviewed PR reported merged at another head commit, and a PR with an
\* empty headSha reported closed, both ended in done.
C6_Witness ==
    /\ Checked /\ Len(h.S.prs) = 2
    /\ h.S.prs[1].column = "reviewed" /\ h.S.prs[1].headSha = "a"
    /\ h.statusOf[h.S.prs[1].id] = [failed |-> FALSE, state |-> "merged", headSha |-> "b"]
    /\ h.S.prs[2].column = "inbox" /\ h.S.prs[2].headSha = ""
    /\ h.statusOf[h.S.prs[2].id].state = "closed" /\ ~h.statusOf[h.S.prs[2].id].failed
    /\ h.out1.prs[1].column = "done" /\ h.out1.prs[2].column = "done"

\* Every PR that is done in the list a is listed in b with the same id, still
\* done, with the same doneAt.
DoneKept(a, b) ==
    \A i \in 1..Len(a) :
        a[i].column = "done" =>
            \E j \in 1..Len(b) :
                b[j].id = a[i].id /\ b[j].column = "done" /\ b[j].doneAt = a[i].doneAt

\* Every PR that is done in the list a is done in b with the same doneAt, or
\* is not listed in b.
DoneKeptOrRemoved(a, b) ==
    \A i \in 1..Len(a) :
        a[i].column = "done" =>
            \A j \in 1..Len(b) :
                b[j].id = a[i].id => (b[j].column = "done" /\ b[j].doneAt = a[i].doneAt)

\* C4: done is terminal for the engine.  In every cycle, the load keeps a
\* done PR of the file as it is or removes it, and every fold of a batch and
\* the status pass keep every done PR of the cycle's state in done with its
\* doneAt.
C4_DoneIsTerminal ==
    [][\A c \in Slots :
          /\ (cycles[c].pc = "load" /\ cycles'[c].pc # "load")
                => DoneKeptOrRemoved(disk.prs, cycles'[c].state.prs)
          /\ (cycles[c].pc \in {"sources", "status"} /\ cycles'[c].pc # "idle")
                => DoneKept(cycles[c].state.prs, cycles'[c].state.prs)]_vars

\* A cycle has folded a batch that rediscovers a done PR with another head
\* commit, and has run its status pass: the PR is still done, with the doneAt
\* it had.
C4_Witness ==
    \E c \in Slots :
        /\ cycles[c].pc = "save" /\ last.op = "checkPRStatusChanges" /\ last.slot = c
        /\ Len(cycles[c].state.prs) = 1
        /\ cycles[c].state.prs[1].column = "done"
        /\ cycles[c].state.prs[1].doneAt = T0 - HOUR_MS
        /\ cycles[c].state.prs[1].headSha = "b"
        /\ cycles[c].state.prs[1].lastCheckedAt = now

\* C7 as stated: a manual refresh respects the busy flag, so at no time are
\* two poll cycles between their load and their save.
C7_ManualRespectsBusy == Cardinality(InFlight) <= 1

\* C8: the busy flag is never left stuck.  When a cycle has ended, through the
\* save of the normal or the fast path or through a caught exception, and
\* whenever no cycle is in flight, isPolling is false.
C8_BusyFlagReleased ==
    /\ last.op = "finish" => ~isPolling
    /\ InFlight = {} => ~isPolling

\* A cycle has ended through the exception of a failed save, and no cycle is
\* in flight.
C8_Witness ==
    /\ last.op = "finish" /\ last.result = "threw"
    /\ InFlight = {} /\ runs > 0 /\ ~isPolling

\* The step is a call of runPoll(false).
AutomaticCall == last'.op = "runPoll" /\ ~last'.force

Skipped == UNCHANGED <<now, disk, isPolling, rateLimitUntil, cycles, runs>>

Started ==
    /\ last'.result = "started" /\ last'.slot \in Slots
    /\ cycles[last'.slot].pc = "idle" /\ cycles'[last'.slot].pc = "load"
    /\ isPolling'

\* C9 as stated: before the deadline an automatic cycle changes nothing and
\* only emits the rate-limit notice; at or after the deadline it is attempted.
C9_BackoffSkips_Original ==
    [][AutomaticCall =>
          /\ rateLimitUntil > now
                => (Skipped /\ last'.emitted = <<PollError("rateLimited")>>)
          /\ rateLimitUntil <= now => Started]_vars

\* C9 (amended): before the deadline an automatic cycle changes nothing (no
\* load, no adapter call, no status lookup, no save, busy flag untouched); it
\* emits the rate-limit notice, unless the busy flag is set, and then it
\* returns without a notice.  At or after the deadline it is attempted, unless
\* the busy flag is set, and then it is skipped without a notice too.
C9_BackoffSkips ==
    [][AutomaticCall =>
          /\ rateLimitUntil > now => Skipped
          /\ (rateLimitUntil > now /\ ~isPolling)
                => last'.emitted = <<PollError("rateLimited")>>
          /\ (rateLimitUntil <= now /\ ~isPolling) => Started
          /\ isPolling => (Skipped /\ last'.emitted = <<>>)]_vars

\* An automatic call was skipped for the backoff with the notice, after a
\* cycle that hit a rate limit has ended.
C9_Witness ==
    /\ last.op = "runPoll" /\ ~last.force /\ last.result = "backoff"
    /\ last.emitted = <<PollError("rateLimited")>>
    /\ rateLimitUntil > now /\ ~isPolling /\ InFlight = {}

\* C10: a manual trigger starts a poll cycle whatever the backoff deadline,
\* and the deadline is zero when runPoll reaches its first await.
C10_ManualBypassesBackoff ==
    (last.op = "runPoll" /\ last.force) =>
        /\ last.result = "started" /\ last.slot \in Slots
        /\ cycles[last.slot].pc = "load" /\ cycles[last.slot].force
        /\ rateLimitUntil = 0

\* A manual trigger was called while the deadline was in the future.
C10_Witness ==
    /\ last.op = "runPoll" /\ last.force /\ last.backoff
    /\ last.result = "started" /\ rateLimitUntil = 0

RECURSIVE Pow2(_)
Pow2(n) == IF n = 0 THEN 1 ELSE 2 * Pow2(n - 1)

Min(a, b) == IF a < b THEN a ELSE b

\* C11 as stated: when the k-th of k consecutive automatic cycles that hit a
\* rate limit hits it, the backoff it sets is min(2^(k-1) minutes, 30 minutes).
C11_ExponentialBackoff ==
    (last.op = "pollSource" /\ last.result = "rateLimited" /\ streak >= 1) =>
        rateLimitUntil - now = Min(Pow2(streak - 1) * MINUTE_MS, MAX_BACKOFF_MS)

\* The step is the adapter of the source that cycle c polls throwing.
SourceThrows(c) ==
    /\ cycles[c].pc = "sources"
    /\ last'.op = "pollSource" /\ last'.slot = c
    /\ last'.result \in {"threw", "rateLimited"}

\* C12: when the adapter of a source throws, the cycle's state is what the
\* sources before it left, and the cycle goes on: every step of the loop takes
\* exactly the next enabled source and the loop ends only when none is left,
\* then the status pass runs and stamps lastPollAt, and the save that succeeds
\* writes the cycle's state and sends it to the renderer.
C12_SourceFailureIsolated ==
    [][\A c \in Slots :
          /\ SourceThrows(c) => cycles'[c].state = cycles[c].state
          /\ (cycles[c].pc = "sources" /\ cycles'[c] # cycles[c]) =>
                /\ cycles'[c].rem = Tail(cycles[c].rem)
                /\ cycles'[c].pc = (IF cycles'[c].rem # <<>> THEN "sources" ELSE "status")
          /\ (cycles[c].pc = "status" /\ cycles'[c] # cycles[c]) =>
                /\ cycles'[c].pc = "save"
                /\ cycles'[c].state.lastPollAt = now
          /\ (cycles[c].pc = "save" /\ last'.op = "finish" /\ last'.slot = c
                 /\ last'.result = "ok") =>
                /\ disk' = cycles[c].state
                /\ last'.emitted = <<InboxUpdate(cycles[c].state)>>]_vars

\* The only cycle so far got a rate-limit error from the GitHub search, and has
\* ended: the Slack source after it was polled (the title it found is stored),
\* the status pass ran (it moved the PR to done), lastPollAt is stamped and the
\* state is saved and sent.
C12_Witness ==
    /\ runs = 1 /\ InFlight = {} /\ rateLimitUntil = now + MINUTE_MS
    /\ last.op = "finish" /\ last.result = "ok"
    /\ last.emitted = <<InboxUpdate(disk)>>
    /\ disk.lastPollAt = now
    /\ Len(disk.prs) = 1 /\ disk.prs[1].title = "t2"
    /\ disk.prs[1].column = "done" /\ disk.prs[1].doneAt = now

\* The entry a status pass at t leaves for the PR p alone when its lookup
\* settles as r.
OwnTransition(p, r, t) ==
    IF p.column = "done" \/ r.failed THEN p
    ELSE IF r.state \in {"merged", "closed"} THEN [p EXCEPT !.column = "done", !.doneAt = t]
    ELSE IF r.headSha = p.headSha THEN p
    ELSE [p EXCEPT !.column = IF p.headSha # "" /\ p.column = "reviewed"
                              THEN "needs-attention" ELSE @,
                   !.headSha = r.headSha, !.lastCheckedAt = t]

SomeLookupFailed ==
    \E i \in 1..Len(h.S.prs) : h.S.prs[i].column # "done" /\ h.statusOf[h.S.prs[i].id].failed

\* C13: in a status pass in which a lookup fails, the PR whose lookup failed is
\* left as it was (column, headSha, lastCheckedAt, doneAt and all else), and
\* every other PR is in its place with exactly the transition of its own
\* lookup result.
C13_StatusFailureIsolated ==
    (Checked /\ SomeLookupFailed) =>
        /\ Len(h.out1.prs) = Len(h.S.prs)
        /\ \A i \in 1..Len(h.S.prs) :
              /\ h.statusOf[h.S.prs[i].id].failed => h.out1.prs[i] = h.S.prs[i]
              /\ h.out1.prs[i] = OwnTransition(h.S.prs[i], h.statusOf[h.S.prs[i].id], h.t1)

\* The lookup of the first PR failed and the second, reviewed, PR got a new
\* commit: the first is as it was, the second is in needs-attention.
C13_Witness ==
    /\ Checked /\ Len(h.S.prs) = 2
    /\ h.S.prs[1].column = "reviewed" /\ h.statusOf[h.S.prs[1].id].failed
    /\ h.out1.prs[1] = h.S.prs[1]
    /\ h.S.prs[2].column = "reviewed" /\ NewCommit(h.S.prs[2])
    /\ h.out1.prs[2].column = "needs-attention" /\ h.out1.prs[2].headSha = "b"

\* The list b holds exactly the elements of the list a at the indices keep, in
\* the order they have in a.
KeptInOrder(a, b, keep) ==
    /\ Len(b) = Cardinality(keep)
    /\ \A i \in keep : b[Cardinality({j \in keep : j <= i})] = a[i]

\* The state out is the state S without the source X and its PRs.
WithoutSource(S, X, out) ==
    /\ KeptInOrder(S.sources, out.sources,
                   {i \in 1..Len(S.sources) : S.sources[i].id # X})
    /\ KeptInOrder(S.prs, out.prs, {i \in 1..Len(S.prs) : S.prs[i].sourceId # X})
    /\ out.lastPollAt = S.lastPollAt
    /\ out.pollIntervalMs = S.pollIntervalMs
    /\ out.ignoredPRIds = S.ignoredPRIds

\* C14: removeSource(state, X), and the state the store's removeSource
\* persists, are the state without the source X and without every PR with
\* sourceId = X; every other source and PR is kept with all its fields and in
\* order, and lastPollAt, pollIntervalMs and the ignore ledger are unchanged.
C14_CascadingSourceRemoval ==
    (h.kind = "removeSource" /\ h.phase = "removed") =>
        /\ WithoutSource(h.S, h.X, h.out1)
        /\ WithoutSource(h.S, h.X, h.out2)

\* The Slack source was removed from a state that lists a PR of it before a PR
\* of the GitHub source: the second PR and the GitHub source are what is left.
C14_Witness ==
    /\ h.kind = "removeSource" /\ h.phase = "removed" /\ h.X = "s2"
    /\ Len(h.S.prs) = 2 /\ h.S.prs[1].sourceId = "s2" /\ h.S.prs[2].sourceId = "s1"
    /\ h.out1.prs = <<h.S.prs[2]>> /\ h.out1.sources = <<GitHubSource>>
    /\ h.out2 = h.out1

Loaded == h.kind = "load" /\ h.phase \in {"loaded", "folded"}

\* The PR p is done and its doneAt is DONE_CLEANUP_HOURS or more before t.
DoneFor24Hours(p, t) ==
    p.column = "done" /\ t - p.doneAt >= DONE_CLEANUP_HOURS * HOUR_MS

\* C15: loadInboxState drops exactly the PRs that are done with a doneAt 24
\* hours or more in the past; all others are returned unchanged and in order.
C15_RetentionOnLoad ==
    Loaded =>
        KeptInOrder(h.S.prs, h.out1.prs,
                    {i \in 1..Len(h.S.prs) : ~DoneFor24Hours(h.S.prs[i], h.t1)})

\* A PR done 25 hours ago was dropped and one done 23 hours ago was kept.
C15_Witness ==
    /\ Loaded /\ Len(h.S.prs) = 2
    /\ h.S.prs[1].column = "done" /\ h.S.prs[1].doneAt = h.t1 - 25 * HOUR_MS
    /\ h.S.prs[2].column = "done" /\ h.S.prs[2].doneAt = h.t1 - 23 * HOUR_MS
    /\ h.out1.prs = <<h.S.prs[2]>>

\* The ignore entry of id in the file is more than IGNORE_DURATION_DAYS old
\* when the file is read.
ExpiredEntry(id) ==
    id \in DOMAIN h.S.ignoredPRIds
        /\ h.t1 - h.S.ignoredPRIds[id] > IGNORE_DURATION_DAYS * DAY_MS

\* C16: an ignore entry older than 7 days is not in the loaded state, and a PR
\* with such an entry that a batch of the cycle contains is listed in column
\* inbox after the fold.
C16_IgnoreExpiry ==
    /\ Loaded => \A id \in PRIds : ExpiredEntry(id) => id \notin DOMAIN h.out1.ignoredPRIds
    /\ (h.kind = "load" /\ h.phase = "folded") =>
          \A id \in BatchIds(h.D) :
              ExpiredEntry(id) =>
                  \E i \in 1..Len(h.out2.prs) :
                      h.out2.prs[i].id = id /\ h.out2.prs[i].column = "inbox"

\* A file with an entry 8 days old was loaded and a batch with the PR of the
\* entry was folded: the entry is gone and the PR was added to inbox.
C16_Witness ==
    /\ h.kind = "load" /\ h.phase = "folded"
    /\ \E id \in BatchIds(h.D) :
          /\ ExpiredEntry(id) /\ h.S.ignoredPRIds[id] = h.t1 - 8 * DAY_MS
          /\ id \notin Ids(h.S.prs) /\ id \notin DOMAIN h.out1.ignoredPRIds
          /\ Len(h.out2.prs) = Len(h.out1.prs) + 1
          /\ h.out2.prs[Len(h.out2.prs)].id = id
          /\ h.out2.prs[Len(h.out2.prs)].column = "inbox"

\* The step is the store's ignorePR for the PR id.
IgnoreStep(id) == last'.op = "ignorePR" /\ last'.arg = id

\* The file holds the whole of an ignore of id: the PR is not listed and the
\* ledger has its entry.
IgnoredOnDisk(file, id) == id \notin Ids(file.prs) /\ id \in DOMAIN file.ignoredPRIds

\* C17: ignorePR(id) is one write.  A save that succeeds writes a state with
\* id absent from prs and present in the ledger with the time of the call;
\* and however the operation ends (saved, save failed, program killed before
\* or after the write), the file is as it was or holds the whole of the
\* ignore: never the list without the PR and a ledger without the entry, nor
\* a new entry next to the PR still listed.  ignorePR of inbox.ts gives such
\* a state too.
C17_IgnoreIsOneWrite ==
    [][\A id \in PRIds :
          IgnoreStep(id) =>
              /\ last'.result \in {"saved", "killedAfterWrite"} =>
                    (IgnoredOnDisk(disk', id) /\ disk'.ignoredPRIds[id] = now)
              /\ disk' = disk \/ IgnoredOnDisk(disk', id)
              /\ ~(id \in Ids(disk.prs) /\ id \notin Ids(disk'.prs)
                       /\ id \notin DOMAIN disk'.ignoredPRIds)
              /\ ~(id \in Ids(disk'.prs) /\ id \in DOMAIN disk'.ignoredPRIds
                       /\ id \notin DOMAIN disk.ignoredPRIds)
              /\ IgnoredOnDisk(ignorePR(disk, id, now), id)]_vars

\* The program was killed after ignorePR wrote the file: the PR that was
\* listed is gone from the file and from the store that was initialised from
\* it, and the ledger has its entry.
C17_Witness ==
    /\ last.op = "ignorePR" /\ last.result = "killedAfterWrite"
    /\ last.arg = generatePRId("o", "r", 1)
    /\ IgnoredOnDisk(disk, last.arg) /\ disk.ignoredPRIds[last.arg] = now
    /\ Len(disk.prs) = 1 /\ disk.prs[1].id = generatePRId("o", "r", 2)
    /\ inboxStore.prs = disk.prs /\ inboxStore.ignoredPRIds = disk.ignoredPRIds

\* The step is a store command.
CommandStep == last'.op \in Commands

\* The fields of the store that a command persists
Persisted(store) ==
    [prs |-> store.prs, sources |-> store.sources, ignoredPRIds |-> store.ignoredPRIds]

\* C18: a store command whose save fails leaves prs, sources and ignoredPRIds
\* (and every field but error) as they were, sets error, and leaves the file
\* alone; and a command that changes one of these fields in memory has saved
\* a state that holds the new values.
C18_PersistThenApply ==
    [][CommandStep =>
          /\ last'.result = "failed" =>
                /\ Persisted(inboxStore') = Persisted(inboxStore)
                /\ inboxStore'.error # NoError
                /\ [inboxStore' EXCEPT !.error = inboxStore.error] = inboxStore
                /\ disk' = disk
          /\ (last'.result \in {"saved", "failed", "duplicate"}
                 /\ Persisted(inboxStore') # Persisted(inboxStore)) =>
                /\ last'.result = "saved"
                /\ Persisted(StoreOf(disk')) = Persisted(inboxStore')]_vars

\* The save of removeSource failed: the source and its PR are still in the
\* store and in the file, and the store has the error.
C18_Witness ==
    /\ last.op = "removeSource" /\ last.result = "failed" /\ last.arg = "s1"
    /\ inboxStore.error = "Failed to remove source"
    /\ \E i \in 1..Len(inboxStore.sources) : inboxStore.sources[i].id = "s1"
    /\ \E i \in 1..Len(inboxStore.prs) : inboxStore.prs[i].sourceId = "s1"
    /\ Persisted(StoreOf(disk)) = Persisted(inboxStore)

\* The step is the save of cycle c failing.
SaveFails(c) ==
    cycles[c].pc = "save" /\ last'.op = "finish" /\ last'.slot = c /\ last'.result = "threw"

\* The step is a call of runPoll(false) right after a cycle ended by a save
\* that failed.
TickAfterFailedSave == last.op = "finish" /\ last.result = "threw" /\ AutomaticCall

\* What the failing save itself does: the file is as it was, no inbox:update
\* and exactly one poll-error event is emitted, the cycle is over and the busy
\* flag is released.
FailedSaveIsCycleFatal ==
    \A c \in Slots :
        SaveFails(c) =>
            /\ disk' = disk
            /\ last'.emitted = <<PollError("exception")>>
            /\ cycles'[c].pc = "idle"
            /\ ~isPolling'

ReadFails(c) ==
    cycles[c].pc = "load" /\ last'.op = "load" /\ last'.slot = c
        /\ last'.result = "unreadable"

\* C20 as stated: when reading or parsing the file fails, the cycle aborts
\* with an error event, and a cycle whose read failed writes nothing.
C20_ReadFailureIsFatal ==
    [][\A c \in Slots :
          /\ ReadFails(c) =>
                (cycles'[c].pc = "idle" /\ last'.emitted # <<>> /\ disk' = disk)
          /\ (cycles[c].readFailed /\ cycles'[c].pc = "idle") => disk' = disk]_vars

\* C21: in every state a poll cycle holds, persists or emits, no two entries
\* of prs have the same id, however often a PR is returned in one batch or by
\* several sources.
C21_IdUniqueness ==
    /\ DistinctIds(disk.prs)
    /\ \A c \in Slots : DistinctIds(cycles[c].state.prs)
    /\ \A i \in 1..Len(last.emitted) : DistinctIds(last.emitted[i].state.prs)

\* A batch that names one PR twice was folded into an inbox that did not list it
C21_Witness ==
    /\ last.op = "pollSource" /\ last.result = "ok"
    /\ Len(last.arg) = 2
    /\ Cardinality(BatchIds(last.arg)) = 1
    /\ disk.prs = <<>>
    /\ Len(cycles[last.slot].state.prs) = 1
    /\ Ids(cycles[last.slot].state.prs) = BatchIds(last.arg)

\* What loadInboxState gave in the step that ends it
LoadedNow == IF last'.result = "unreadable" THEN getDefaultState ELSE loadInboxState(disk, now)

\* C22: when the loaded state has no enabled source, the cycle goes from the
\* load straight to the save (no adapter is called, no status lookup is made)
\* with a state that differs from the loaded one in lastPollAt only, and that
\* state is what it writes to the file and sends to the renderer.
C22_NoEnabledSourcesFastPath ==
    [][\A c \in Slots :
         /\ (last'.op = "load" /\ last'.slot = c /\ enabledSources(LoadedNow) = <<>>)
                => /\ cycles'[c].pc = "save"
                   /\ cycles'[c].state.prs = LoadedNow.prs
                   /\ cycles'[c].state.sources = LoadedNow.sources
                   /\ cycles'[c].state.pollIntervalMs = LoadedNow.pollIntervalMs
                   /\ cycles'[c].state.ignoredPRIds = LoadedNow.ignoredPRIds
         /\ (cycles[c].pc = "save" /\ cycles'[c] # cycles[c])
                => /\ last'.op = "finish" /\ last'.slot = c
                   /\ cycles'[c].pc = "idle"
                   /\ last'.result = "ok"
                         => /\ disk' = cycles[c].state
                            /\ last'.emitted = <<InboxUpdate(cycles[c].state)>>]_vars

\* A cycle that found a tracked PR and no enabled source has written the file
C22_Witness ==
    /\ last.op = "finish" /\ last.result = "ok"
    /\ disk.sources # <<>> /\ enabledSources(disk) = <<>>
    /\ disk.prs = <<TrackedPR(1, "inbox", "a")>>
    /\ disk.lastPollAt = now
    /\ last.emitted = <<InboxUpdate(disk)>>

\* The cycle loaded an empty inbox with the GitHub search as its one enabled
\* source, the search returned the single record d, and the PR is open
FirstDiscovery(d) ==
    /\ h.kind = "cycle" /\ h.phase = "saved"
    /\ h.S.prs = <<>>
    /\ enabledSources(h.S) = <<GitHubSource>>
    /\ h.D = <<(<<d>>)>>
    /\ \A id \in DOMAIN h.statusOf : h.statusOf[id].state = "open"

C24_BackoffCap == rateLimitUntil <= now + MAX_BACKOFF_MS

\* A rate-limit error met a remaining backoff of more than 15 minutes: the
\* doubled value was cut to the cap
C24_Witness ==
    /\ last.op = "handlePollError" /\ last.result = "rateLimited"
    /\ rateLimitUntil = now + MAX_BACKOFF_MS
    /\ now > T0

\* The column of the PR with this id in prs
ColumnOf(prs, id) == (CHOOSE p \in {prs[i] : i \in 1..Len(prs)} : p.id = id).column

\* The cycle loaded p in column reviewed with a head commit, and its status
\* lookup found the PR open with another head commit
ChangedSinceReview(p) ==
    /\ h.kind = "cycle" /\ h.phase = "saved"
    /\ p.column = "reviewed" /\ p.headSha # ""
    /\ p.id \in DOMAIN h.statusOf
    /\ ~h.statusOf[p.id].failed
    /\ h.statusOf[p.id].state = "open"
    /\ h.statusOf[p.id].headSha # p.headSha

\* C25 as stated: a reviewed PR whose upstream head commit changed is in
\* needs-attention in the state the cycle saves, also when a source of the
\* same cycle returned the PR with the new head commit.
C25_ReviewedChangeFlagged ==
    \A i \in 1..Len(h.S.prs) :
        ChangedSinceReview(h.S.prs[i])
            => /\ h.S.prs[i].id \in Ids(h.out2.prs)
               /\ ColumnOf(h.out2.prs, h.S.prs[i].id) = "needs-attention"

\* C26 as stated: the busy flag is true for as long as at least one cycle is
\* running, so that the test of line 92 keeps every automatic cycle from
\* starting while another cycle is in flight.
C26_BusyWhileRunning == InFlight # {} => isPolling

\* The step is the save of a cycle that had read the file
SaveOfLoaded ==
    /\ last'.op = "finish" /\ last'.result = "ok"
    /\ ~cycles[last'.slot].readFailed

\* C27 as stated: once an ignore of a PR is on file, every state a poll
\* cycle writes after it has the PR absent from prs and present in the ledger
\* while the entry is live, also when the cycle loaded the file before the
\* ignore was written.
C27_IgnoreSurvivesPoll ==
    [][\A id \in PRIds :
          (SaveOfLoaded /\ IgnoredOnDisk(disk, id) /\ Live(id, disk.ignoredPRIds, now))
              => IgnoredOnDisk(disk', id)]_vars

SourceIdsOf(state) == {state.sources[k].id : k \in 1..Len(state.sources)}

\* C28 as stated: what a source command wrote to the file is still in the
\* state a poll cycle writes and emits after it: the sources are those of the
\* file (an added source is registered, a removed one is gone, a toggled
\* enabled flag has its new value) and no PR of a removed source comes back.
C28_NoLostSourceUpdate ==
    [][SaveOfLoaded
          => /\ disk'.sources = disk.sources
             /\ \A i \in 1..Len(disk'.prs) : disk'.prs[i].sourceId \in SourceIdsOf(disk)
             /\ last'.emitted = <<InboxUpdate(disk')>>]_vars

\* The entry with this id in prs
EntryOf(prs, id) == CHOOSE p \in {prs[i] : i \in 1..Len(prs)} : p.id = id

\* C29 as stated: in the status pass an open PR's headSha and lastCheckedAt
\* are overwritten exactly when the fetched headSha differs from the stored
\* one and the stored one is not empty; otherwise both are unchanged.
C29_ProtectedPlaceholderSha ==
    \A i \in 1..Len(h.S.prs) :
        LET p == h.S.prs[i]
            r == h.statusOf[p.id]
        IN  (Checked /\ p.column # "done" /\ ~r.failed /\ r.state = "open")
                => LET q == EntryOf(h.out1.prs, p.id)
                   IN  IF r.headSha # p.headSha /\ p.headSha # ""
                       THEN q.headSha = r.headSha /\ q.lastCheckedAt = h.t1
                       ELSE q.headSha = p.headSha /\ q.lastCheckedAt = p.lastCheckedAt

\* C30 as stated: a PR that was loaded with a head commit has a head commit
\* in the state the cycle saves, whatever its adapters returned and however
\* its status lookups settled.
C30_HeadShaNeverCleared ==
    (h.kind = "cycle" /\ h.phase = "saved")
        => \A i \in 1..Len(h.S.prs) :
              (h.S.prs[i].headSha # "" /\ h.S.prs[i].id \in Ids(h.out2.prs))
                  => EntryOf(h.out2.prs, h.S.prs[i].id).headSha # ""

\* C31 as stated, for the cycles that end before the clock has moved: when an
\* automatic cycle ends in which the fetch of a source of either kind failed
\* with a rate-limit signal, the backoff deadline is in the future.
C31_RateLimitNeverDropped ==
    [][\A c \in Slots :
          (last'.op = "finish" /\ last'.slot = c /\ ~cycles[c].force /\ cycles[c].signal
             /\ now' = T0)
              => rateLimitUntil' > now']_vars

\* The ids the cycle appended: in the state after the upserts, not in the
\* state that was loaded
Appended == Ids(h.out1.prs) \ Ids(loadInboxState(h.S, h.t1).prs)

\* C32: every PR a cycle discovers for the first time is looked up in the
\* status pass of that cycle, and when the lookup reports merged or closed the
\* state the cycle saves has it in column done with doneAt set.
C32_SameCycleStatusCheck ==
    (h.kind = "cycle" /\ h.phase = "saved" /\ enabledSources(h.S) # <<>>)
        => \A id \in Appended :
              /\ id \in DOMAIN h.statusOf
              /\ (~h.statusOf[id].failed /\ h.statusOf[id].state \in {"merged", "closed"})
                    => /\ id \in Ids(h.out2.prs)
                       /\ EntryOf(h.out2.prs, id).column = "done"
                       /\ EntryOf(h.out2.prs, id).doneAt = h.t2

\* A PR was discovered for the first time, its lookup reported it merged, and
\* the saved state has it in column done
C32_Witness ==
    /\ h.kind = "cycle" /\ h.phase = "saved"
    /\ \E id \in Appended :
          /\ ~h.statusOf[id].failed /\ h.statusOf[id].state = "merged"
          /\ EntryOf(h.out2.prs, id).column = "done"
          /\ EntryOf(h.out2.prs, id).doneAt = h.t2

\* The sources whose batch in this cycle names the PR with this id, as
\* positions in the registry's order of the enabled sources
Returning(id) == {k \in 1..Len(h.D) : id \in BatchIds(h.D[k])}

\* The last record of a batch for the PR with this id
LastRecord(d, id) ==
    LET at == {i \in 1..Len(d) : generatePRId(d[i].owner, d[i].repo, d[i].number) = id}
    IN  d[CHOOSE i \in at : \A j \in at : j <= i]

\* C33: a PR that the cycle appended is listed once; its source and sourceId
\* are those of the first enabled source, in the order of the registry, whose
\* batch named it; of the later records only title and headSha (and the time
\* in lastCheckedAt) went into the entry.
C33_RegistryOrderFold ==
    (h.kind = "cycle" /\ h.phase \in {"fetched", "saved"})
        => \A id \in Appended :
              LET first == CHOOSE k \in Returning(id) : \A j \in Returning(id) : k <= j
                  final == CHOOSE k \in Returning(id) : \A j \in Returning(id) : j <= k
                  entry == EntryOf(h.out1.prs, id)
              IN  /\ Cardinality({i \in 1..Len(h.out1.prs) : h.out1.prs[i].id = id}) = 1
                  /\ entry.sourceId = enabledSources(h.S)[first].id
                  /\ entry.source = enabledSources(h.S)[first].type
                  /\ entry.column = "inbox"
                  /\ entry.addedAt = h.t1
                  /\ entry.lastCheckedAt = h.t1
                  /\ entry.title = LastRecord(h.D[final], id).title
                  /\ entry.headSha = LastRecord(h.D[final], id).headSha

\* Both enabled sources returned one untracked PR, with different head
\* commits: the entry belongs to the first source and has the head commit the
\* second one returned
C33_Witness ==
    /\ h.kind = "cycle" /\ h.phase \in {"fetched", "saved"}
    /\ \E id \in Appended :
          /\ Returning(id) = {1, 2}
          /\ LastRecord(h.D[1], id).headSha # LastRecord(h.D[2], id).headSha
          /\ EntryOf(h.out1.prs, id).sourceId = enabledSources(h.S)[1].id
          /\ EntryOf(h.out1.prs, id).headSha = LastRecord(h.D[2], id).headSha

\* C34 as stated: at most one interval is running, and when the last call
\* was stopPolling no interval is running and none is about to be set.
C34_SingleTimer ==
    h.kind = "timer"
        => /\ Cardinality(h.active) <= 1
           /\ h.lastCall = "stop" => (h.active = {} /\ h.loading = 0)

\* The changes of column a poll cycle may make to a tracked PR
CycleMove(from, to) ==
    \/ to = from
    \/ from = "reviewed" /\ to = "needs-attention"
    \/ from \in {"inbox", "needs-attention", "reviewed"} /\ to = "done"

\* C35: every PR the cycle loaded is still listed after the upserts and in
\* the state the cycle saves, with its column unchanged or changed by
\* reviewed -> needs-attention or inbox / needs-attention / reviewed -> done.
C35_ColumnTransitionGraph ==
    (h.kind = "cycle" /\ h.phase \in {"fetched", "saved"})
        => LET loaded == loadInboxState(h.S, h.t1).prs
           IN  \A i \in 1..Len(loaded) :
                  /\ loaded[i].id \in Ids(h.out1.prs)
                  /\ EntryOf(h.out1.prs, loaded[i].id).column = loaded[i].column
                  /\ h.phase = "saved"
                        => /\ loaded[i].id \in Ids(h.out2.prs)
                           /\ CycleMove(loaded[i].column,
                                        EntryOf(h.out2.prs, loaded[i].id).column)

\* A cycle whose source returned a reviewed PR has moved it to needs-attention
C35_Witness ==
    /\ h.kind = "cycle" /\ h.phase = "saved"
    /\ \E i \in 1..Len(h.S.prs) :
          /\ h.S.prs[i].column = "reviewed"
          /\ \E k \in 1..Len(h.D) : h.S.prs[i].id \in BatchIds(h.D[k])
          /\ EntryOf(h.out2.prs, h.S.prs[i].id).column = "needs-attention"

\* C36 as stated: a channel fetch that succeeds has, together with the
\* fetches before it, returned every message that was posted before it.
\* (`since` never decreases, so a message that a successful fetch leaves out
\* is in the window of no later fetch.)
C36_NoMessageSkipped ==
    (h.kind = "channel" /\ h.phase = "fetched" /\ h.ok)
        => \A m \in h.posted : m < h.fetchedAt => m \in h.seen

\* The PRs that the retention sweep of the cycle's load dropped
Swept == Ids(h.S.prs) \ Ids(loadInboxState(h.S, h.t1).prs)

\* The cycle's lookup of the PR, if it made one, reported it merged or closed
ReportedClosed(id) ==
    id \in DOMAIN h.statusOf
        => (~h.statusOf[id].failed /\ h.statusOf[id].state \in {"merged", "closed"})

\* C37 as stated: a PR that the retention sweep dropped, and that the hosting
\* service reports merged or closed, is not in the prs the cycle saves,
\* whatever the enabled sources returned
C37_RetentionRemovesForGood ==
    (h.kind = "cycle" /\ h.phase = "saved")
        => \A id \in Swept : ReportedClosed(id) => id \notin Ids(h.out2.prs)

\* C38: during a status pass at most PR_STATUS_CONCURRENCY lookups are in
\* flight, a lookup starts only when none is in flight, and when the loop is
\* over every PR that is not done was looked up once and no done PR at all
C38_BoundedStatusConcurrency ==
    [][h'.kind = "lookups"
         => /\ Cardinality(h'.inFlight) <= PR_STATUS_CONCURRENCY
            /\ (\E k \in 1..Len(h.columns) : h'.looked[k] > h.looked[k]) => h.inFlight = {}
            /\ h'.phase = "apply"
                  => \A k \in 1..Len(h'.columns) :
                        h'.looked[k] = IF h'.columns[k] # "done" THEN 1 ELSE 0]_vars

\* A pass over more PRs than one batch holds is over, with done PRs among them
C38_Witness ==
    /\ h.kind = "lookups" /\ h.phase = "apply"
    /\ h.batches = 2
    /\ \E k \in 1..Len(h.columns) : h.columns[k] = "done"
    /\ \E n \in 1..Len(h.results) : h.results[n].outcome = "rejected"

DoneHasDoneAt(prs) ==
    \A i \in 1..Len(prs) : prs[i].column = "done" => prs[i].doneAt # Undefined

\* C39: from a file in which every done PR has doneAt, every state of the
\* poll cycles, every state in the store and every state saved to the file
\* has doneAt set on every PR whose column is done
C39_DoneImpliesDoneAt ==
    /\ DoneHasDoneAt(disk.prs)
    /\ DoneHasDoneAt(inboxStore.prs)
    /\ \A c \in Slots : DoneHasDoneAt(cycles[c].state.prs)

\* The store's movePR saved a state with two done PRs, one of them moved by a
\* poll cycle's status pass
C39_Witness ==
    /\ last.op = "movePR" /\ last.result = "saved"
    /\ Len(disk.prs) = 2
    /\ \A i \in 1..Len(disk.prs) : disk.prs[i].column = "done"

\* C40: a step of the main process sends inbox:update only as the end of a
\* cycle whose saveInboxState succeeded, the event carries the state of that
\* cycle, and the file holds exactly that state
C40_NotifyAfterPersist ==
    [][\A n \in 1..Len(last'.emitted) :
          last'.emitted[n].type = "inbox:update"
              => /\ last'.op = "finish" /\ last'.result = "ok"
                 /\ last'.emitted[n].state = cycles[last'.slot].state
                 /\ disk' = last'.emitted[n].state]_vars

\* A cycle that polled its sources sent the update with the state it saved,
\* which differs from the file it loaded in more than the stamp
C40_Witness ==
    /\ last.op = "finish" /\ last.result = "ok"
    /\ \E n \in 1..Len(last.emitted) :
          /\ last.emitted[n].type = "inbox:update"
          /\ last.emitted[n].state = disk
          /\ \E d \in InitDisks : d.sources = disk.sources /\ Len(d.prs) < Len(disk.prs)

====
